---- MODULE Spec2Model ----
(***************************************************************************)
(* A model of src/src/spac/data_utils.py and of the layer handling of       *)
(* src/src/spac/visualization.py (SCSAWorkflow / spac).                    *)
(*                                                                         *)
(* Every function of data_utils.py is a synchronous transformation of an   *)
(* in-memory table (pandas DataFrame) or annotated matrix (AnnData).  Each *)
(* component gets its own specification: Init draws the inputs of the      *)
(* component from bounded sets, and one action per function applies it.    *)
(*                                                                         *)
(*   SpecLayers      add_rescaled_features, subtract_min_per_region        *)
(*   SpecDownsample  downsample_cells                                      *)
(*   SpecStratified  downsample_cells, stratified, on larger tables        *)
(*   SpecSelect      select_values                                         *)
(*   SpecAppend      append_observation                                    *)
(*   SpecLoad        load_csv_files                                        *)
(*   SpecCombine     combine_dfs                                           *)
(*   SpecIngest      ingest_cells                                          *)
(*   SpecRegions     concatinate_regions                                   *)
(*   SpecBin         bin2cat                                               *)
(*   SpecCentroid    calculate_centroid                                    *)
(*   SpecRescale     rescale_features                                      *)
(*   SpecPlot        histogram, heatmap, hierarchical_heatmap              *)
(*                                                                         *)
(* Conventions.  Rows are numbered from 1.  A DataFrame is a record        *)
(* [index, rows] or [index, columns, rows]: index is the sequence of row   *)
(* labels and rows the sequence of rows, a row being the sequence of its   *)
(* cells in column order.  A float cell is a rational <<n, d>>, d > 0, in  *)
(* lowest terms; the result of a float operation is the exact result       *)
(* rounded to MantissaBits significant bits, as the program's doubles      *)
(* round to 53.  Annotation values are non-missing labels.  A cell of a    *)
(* table of append_observation is a Python value <<type, text>>: its type  *)
(* and the text str() gives for it.                                        *)
(***************************************************************************)
EXTENDS Integers, Sequences, FiniteSets, TLC

VARIABLES
    X,          \* adata.X: the primary matrix, a sequence of rows
    obs,        \* adata.obs[annotation]: one label per observation
    layers,     \* adata.layers: layer name -> matrix (a function on the names set so far)
    written,    \* per layer, the call that last wrote it (bookkeeping for the properties)
    new_df,     \* <<the DataFrame subtract_min_per_region assembled in its last call>>, <<>> before
    data,       \* the table a table function is called on (the caller's object)
    args,       \* the other arguments of the call
    ret,        \* <<>> before the call returns, then <<its outcome>>
    locals      \* the local variables of a call that runs a loop, <<>> outside one

vars == <<X, obs, layers, written, new_df, data, args, ret, locals>>

\* the variables of the annotated matrix, and those of a call of a table function
matrixVars == <<X, obs, layers, written, new_df>>
callVars == <<data, args, ret, locals>>

-----------------------------------------------------------------------------
(* Bounds of the model *)

\* the largest number of observations of an annotated matrix
MaxObs == 3

\* the significant bits a float keeps (53 in the program's doubles): every
\* arithmetic result is rounded to that many bits
MantissaBits == 6

\* the feature values an observation can hold (one feature column)
FeatureValues == {0, 1, 2}

\* adata.var_names
var_names == <<"f1">>

\* the values of the annotation column
Regions == {"A", "B"}

\* the layer names the calls are made with
LayerNames == {"l1", "l2"}

\* the quantiles the calls are made with, as rationals
Quantiles == {<<1, 2>>}

\* the (min_quantile, max_quantile) pairs add_rescaled_features is called with
QuantilePairs == {<<<<1, 100>>, <<99, 100>>>>}

\* "no value": None, or a variable not yet assigned
None == "None"

-----------------------------------------------------------------------------
(* float arithmetic: rationals, rounded after every operation *)

Abs(n) == IF n < 0 THEN 0 - n ELSE n

RECURSIVE GCD(_, _)
GCD(a, b) == IF b = 0 THEN a ELSE GCD(b, a % b)

\* the rational n/d (d # 0) in lowest terms with a positive denominator
Rat(n, d) ==
    LET g == GCD(Abs(n), Abs(d))
        s == IF d < 0 THEN 0 - 1 ELSE 1
    IN  <<(s * n) \div g, (s * d) \div g>>

RInt(n) == <<n, 1>>
RAdd(a, b) == Rat(a[1] * b[2] + b[1] * a[2], a[2] * b[2])
RSub(a, b) == Rat(a[1] * b[2] - b[1] * a[2], a[2] * b[2])
RMul(a, b) == Rat(a[1] * b[1], a[2] * b[2])
RDiv(a, b) == Rat(a[1] * b[2], a[2] * b[1])
RLe(a, b) == a[1] * b[2] <= b[1] * a[2]
RLt(a, b) == a[1] * b[2] < b[1] * a[2]
RMax(a, b) == IF RLe(a, b) THEN b ELSE a
RMin(a, b) == IF RLe(a, b) THEN a ELSE b
\* floor of a rational (d > 0)
RFloor(a) == a[1] \div a[2]

RECURSIVE Pow2(_)
Pow2(k) == IF k = 0 THEN 1 ELSE 2 * Pow2(k - 1)

\* the integer nearest to n/d (n >= 0, d > 0), a tie going to the even one
NearestEven(n, d) ==
    LET m == n \div d
        r == 2 * (n - m * d)
    IN  IF r > d THEN m + 1
        ELSE IF r < d THEN m
        ELSE m + (m % 2)

\* a float's significand, as an integer, is below MantissaHigh and at least
\* half of it
MantissaHigh == Pow2(MantissaBits)

\* the float nearest to n/d * mul/div (n > 0, d > 0): the ratio n/d is brought
\* between MantissaHigh / 2 and MantissaHigh by powers of 2 kept in mul and div,
\* rounded there, and scaled back
RECURSIVE RoundPositive(_, _, _, _)
RoundPositive(n, d, mul, div) ==
    IF n >= MantissaHigh * d THEN RoundPositive(n, 2 * d, 2 * mul, div)
    ELSE IF 2 * n < MantissaHigh * d THEN RoundPositive(2 * n, d, mul, 2 * div)
    ELSE Rat(NearestEven(n, d) * mul, div)

\* the float an exact result is stored as (round to nearest, ties to even); a
\* whole number below MantissaHigh is a float already
Round(a) ==
    IF a[2] = 1 /\ Abs(a[1]) < MantissaHigh THEN a
    ELSE IF a[1] < 0
    THEN LET r == RoundPositive(0 - a[1], a[2], 1, 1) IN <<0 - r[1], r[2]>>
    ELSE RoundPositive(a[1], a[2], 1, 1)

\* the arithmetic of floats: the exact result, rounded
FAdd(a, b) == Round(RAdd(a, b))
FSub(a, b) == Round(RSub(a, b))
FMul(a, b) == Round(RMul(a, b))
FDiv(a, b) == Round(RDiv(a, b))

-----------------------------------------------------------------------------
(* pandas helpers *)

\* the column c of a sequence of rows
RECURSIVE Column(_, _)
Column(rows, c) ==
    IF rows = <<>> THEN <<>> ELSE <<Head(rows)[c]>> \o Column(Tail(rows), c)

RECURSIVE Insert(_, _)
Insert(v, s) ==
    IF s = <<>> THEN <<v>>
    ELSE IF RLe(v, Head(s)) THEN <<v>> \o s
    ELSE <<Head(s)>> \o Insert(v, Tail(s))

RECURSIVE SortAsc(_)
SortAsc(s) == IF s = <<>> THEN <<>> ELSE Insert(Head(s), SortAsc(Tail(s)))

\* Series.quantile(q), linear interpolation, of a non-empty column
Quantile(col, q) ==
    LET s  == SortAsc(col)
        h  == RMul(RInt(Len(s) - 1), q)
        lo == RFloor(h)
        fr == RSub(h, RInt(lo))
    IN  IF lo + 2 > Len(s) THEN s[lo + 1]
        ELSE FAdd(s[lo + 1], FMul(fr, FSub(s[lo + 2], s[lo + 1])))

\* DataFrame.quantile(q): one value per column (columns c..last)
RECURSIVE FrameQuantileFrom(_, _, _)
FrameQuantileFrom(rows, q, c) ==
    IF c > Len(var_names) THEN <<>>
    ELSE <<Quantile(Column(rows, c), q)>> \o FrameQuantileFrom(rows, q, c + 1)

FrameQuantile(rows, q) == FrameQuantileFrom(rows, q, 1)

\* DataFrame.min() / DataFrame.max(): one value per column (columns c..last)
RECURSIVE FrameMinFrom(_, _)
FrameMinFrom(rows, c) ==
    IF c > Len(var_names) THEN <<>>
    ELSE <<SortAsc(Column(rows, c))[1]>> \o FrameMinFrom(rows, c + 1)

RECURSIVE FrameMaxFrom(_, _)
FrameMaxFrom(rows, c) ==
    IF c > Len(var_names) THEN <<>>
    ELSE <<SortAsc(Column(rows, c))[Len(rows)]>> \o FrameMaxFrom(rows, c + 1)

\* mutant of Unique: the distinct values in sorted order (as a groupby lists them)
RECURSIVE InsertLabel(_, _)
InsertLabel(v, s) ==
    IF s = <<>> THEN <<v>>
    ELSE IF v = Head(s) THEN s
    ELSE IF v = "A" \/ (v = "B" /\ Head(s) # "A") THEN <<v>> \o s
    ELSE <<Head(s)>> \o InsertLabel(v, Tail(s))

RECURSIVE UniqueSorted(_)
UniqueSorted(s) ==
    IF s = <<>> THEN <<>> ELSE InsertLabel(Head(s), UniqueSorted(Tail(s)))

\* Series.unique().tolist(): the distinct values in order of first appearance
RECURSIVE Unique(_)
Unique(s) ==
    IF s = <<>> THEN <<>>
    ELSE LET u == Unique(SubSeq(s, 1, Len(s) - 1))
             v == s[Len(s)]
         IN  IF \E i \in DOMAIN u : u[i] = v THEN u ELSE Append(u, v)

\* series == value: the boolean mask of the rows holding the value
RECURSIVE EqMask(_, _)
EqMask(series, value) ==
    IF series = <<>> THEN <<>>
    ELSE <<Head(series) = value>> \o EqMask(Tail(series), value)

\* seq[mask]: the elements of seq where the boolean mask holds
RECURSIVE MaskSeq(_, _)
MaskSeq(seq, mask) ==
    IF seq = <<>> THEN <<>>
    ELSE (IF Head(mask) THEN <<Head(seq)>> ELSE <<>>) \o MaskSeq(Tail(seq), Tail(mask))

\* df[mask]: the rows of df where the boolean mask holds, with their index labels
MaskRows(df, mask) ==
    [index |-> MaskSeq(df.index, mask), rows |-> MaskSeq(df.rows, mask)]

\* pd.concat(list of frames): the frames' rows one frame after the other
RECURSIVE Concat(_)
Concat(dfs) ==
    IF dfs = <<>> THEN [index |-> <<>>, rows |-> <<>>]
    ELSE LET rest == Concat(Tail(dfs))
         IN  [index |-> Head(dfs).index \o rest.index,
              rows  |-> Head(dfs).rows \o rest.rows]

\* the default index of a frame of n rows (RangeIndex; rows are numbered from 1)
RECURSIVE RangeIndexFrom(_, _)
RangeIndexFrom(i, n) == IF i > n THEN <<>> ELSE <<i>> \o RangeIndexFrom(i + 1, n)

RangeIndex(n) == RangeIndexFrom(1, n)

-----------------------------------------------------------------------------
(* anndata helpers *)

\* adata.to_df(): the primary matrix as a DataFrame indexed by the observation names
to_df(x) == [index |-> RangeIndex(Len(x)), columns |-> var_names, rows |-> x]

\* adata.layers[layer] = df : a layer holds the values of df by position (the
\* DataFrame is converted to an array, its index is not consulted)
LayerValue(df) == df.rows

-----------------------------------------------------------------------------
(* Normalization engine *)

\* features.clip(lower, upper, axis=1) of one row, cells c..last
RECURSIVE ClipRow(_, _, _, _)
ClipRow(row, lower, upper, c) ==
    IF c > Len(row) THEN <<>>
    ELSE <<RMin(RMax(row[c], lower[c]), upper[c])>> \o ClipRow(row, lower, upper, c + 1)

RECURSIVE ClipRows(_, _, _)
ClipRows(rows, lower, upper) ==
    IF rows = <<>> THEN <<>>
    ELSE <<ClipRow(Head(rows), lower, upper, 1)>> \o ClipRows(Tail(rows), lower, upper)

\* MinMaxScaler.fit_transform of one row, cells c..last: x * scale_ + min_ with
\* scale_ = 1 / data_range (a zero range replaced by 1) and
\* min_ = 0 - data_min * scale_; every step is a float operation
RECURSIVE ScaleRow(_, _, _, _)
ScaleRow(row, colmin, colmax, c) ==
    IF c > Len(row) THEN <<>>
    ELSE LET data_range == FSub(colmax[c], colmin[c])
             scale_ == FDiv(RInt(1), IF data_range = RInt(0) THEN RInt(1)
                                     ELSE data_range)
             min_   == FSub(RInt(0), FMul(colmin[c], scale_))
         IN  <<FAdd(FMul(row[c], scale_), min_)>>
             \o ScaleRow(row, colmin, colmax, c + 1)

RECURSIVE ScaleRows(_, _, _)
ScaleRows(rows, colmin, colmax) ==
    IF rows = <<>> THEN <<>>
    ELSE <<ScaleRow(Head(rows), colmin, colmax, 1)>> \o ScaleRows(Tail(rows), colmin, colmax)

\* rescale_features: clip every column to its quantile range, min-max scale it
rescale_features(features, min_quantile, max_quantile) ==
    LET markers_max_quantile == FrameQuantile(features.rows, max_quantile)
        markers_min_quantile == FrameQuantile(features.rows, min_quantile)
        features_clipped ==
            ClipRows(features.rows, markers_min_quantile, markers_max_quantile)
        np_features_scaled ==
            ScaleRows(features_clipped, FrameMinFrom(features_clipped, 1),
                      FrameMaxFrom(features_clipped, 1))
    IN  [index |-> RangeIndex(Len(np_features_scaled)),
         columns |-> features.columns, rows |-> np_features_scaled]

\* (features - columns_min_quantile).clip(lower=0) of one row, cells c..last
RECURSIVE SubtractRow(_, _, _)
SubtractRow(row, colq, c) ==
    IF c > Len(row) THEN <<>>
    ELSE <<RMax(FSub(row[c], colq[c]), RInt(0))>> \o SubtractRow(row, colq, c + 1)

RECURSIVE SubtractRows(_, _)
SubtractRows(rows, colq) ==
    IF rows = <<>> THEN <<>>
    ELSE <<SubtractRow(Head(rows), colq, 1)>> \o SubtractRows(Tail(rows), colq)

\* subtract_min_quantile: subtract every column's quantile, clip negatives to 0
subtract_min_quantile(features, min_quantile) ==
    LET columns_min_quantile == FrameQuantile(features.rows, min_quantile)
    IN  [index |-> features.index,
         rows  |-> SubtractRows(features.rows, columns_min_quantile)]

\* the loop of subtract_min_per_region: new_df_list for the regions r..last
RECURSIVE RegionFrames(_, _, _, _)
RegionFrames(original, annotation, regions, min_quantile) ==
    IF regions = <<>> THEN <<>>
    ELSE LET region_cells == MaskRows(original, EqMask(annotation, Head(regions)))
             new_features == subtract_min_quantile(region_cells, min_quantile)
         IN  <<new_features>> \o
             RegionFrames(original, annotation, Tail(regions), min_quantile)

\* the frame subtract_min_per_region assembles (new_df)
AssembleRegions(x, annotation, min_quantile) ==
    LET regions  == Unique(annotation)
        original == to_df(x)
    IN  Concat(RegionFrames(original, annotation, regions, min_quantile))

\* add_rescaled_features(adata, min_quantile, max_quantile, layer)
add_rescaled_features(layer, min_quantile, max_quantile) ==
    LET original == to_df(X)
        rescaled == rescale_features(original, min_quantile, max_quantile)
    IN  /\ layers' = [l \in DOMAIN layers \cup {layer} |->
                        IF l = layer THEN LayerValue(rescaled) ELSE layers[l]]
        /\ written' = [l \in DOMAIN layers \cup {layer} |->
                        IF l = layer
                        THEN [op |-> "add_rescaled_features",
                              min_quantile |-> min_quantile,
                              max_quantile |-> max_quantile]
                        ELSE written[l]]
        /\ UNCHANGED <<X, obs, new_df, callVars>>

\* mutant of subtract_min_per_region: the clipped result is also written through to
\* the primary matrix (the frame of to_df() sharing the matrix's memory)
subtract_min_per_region_inplace(layer, min_quantile) ==
    LET df == AssembleRegions(X, obs, min_quantile)
    IN  /\ new_df' = <<df>>
        /\ layers' = [l \in DOMAIN layers \cup {layer} |->
                        IF l = layer THEN LayerValue(df) ELSE layers[l]]
        /\ written' = [l \in DOMAIN layers \cup {layer} |->
                        IF l = layer
                        THEN [op |-> "subtract_min_per_region",
                              min_quantile |-> min_quantile,
                              max_quantile |-> None]
                        ELSE written[l]]
        /\ X' = LayerValue(df)
        /\ UNCHANGED <<obs, callVars>>

\* subtract_min_per_region(adata, annotation, layer, min_quantile)
subtract_min_per_region(layer, min_quantile) ==
    LET df == AssembleRegions(X, obs, min_quantile)
    IN  /\ new_df' = <<df>>
        /\ layers' = [l \in DOMAIN layers \cup {layer} |->
                        IF l = layer THEN LayerValue(df) ELSE layers[l]]
        /\ written' = [l \in DOMAIN layers \cup {layer} |->
                        IF l = layer
                        THEN [op |-> "subtract_min_per_region",
                              min_quantile |-> min_quantile,
                              max_quantile |-> None]
                        ELSE written[l]]
        /\ UNCHANGED <<X, obs, callVars>>

AddRescaled ==
    \E layer \in LayerNames : \E qq \in QuantilePairs :
        add_rescaled_features(layer, qq[1], qq[2])

SubtractMin ==
    \E layer \in LayerNames : \E q \in Quantiles :
        subtract_min_per_region(layer, q)

\* a freshly built annotated matrix: no layers yet
InitLayers ==
    /\ \E n \in 1..MaxObs :
        /\ X \in [1..n -> [DOMAIN var_names -> {RInt(v) : v \in FeatureValues}]]
        /\ obs \in [1..n -> Regions]
    /\ layers = <<>>
    /\ written = <<>>
    /\ new_df = <<>>
    /\ data = <<>> /\ args = <<>> /\ ret = <<>> /\ locals = <<>>

NextLayers == AddRescaled \/ SubtractMin

SpecLayers == InitLayers /\ [][NextLayers]_vars

-----------------------------------------------------------------------------
(* Properties of the normalization engine (SpecLayers) *)

\* the rows of the region of observation i, in original order
RegionRows(i) == MaskSeq(X, EqMask(obs, obs[i]))

\* the transform of observation i that the call `call` computes
TransformOf(call, i) ==
    IF call.op = "subtract_min_per_region"
    THEN SubtractRow(X[i], FrameQuantile(RegionRows(i), call.min_quantile), 1)
    ELSE rescale_features(to_df(X), call.min_quantile, call.max_quantile).rows[i]

\* C1: after any sequence of add_rescaled_features and subtract_min_per_region
\* calls, every layer has as many rows as the primary matrix, and row i of a
\* layer is the transform of observation i.
C1_LayersAligned ==
    \A l \in DOMAIN layers :
        /\ Len(layers[l]) = Len(X)
        /\ \A i \in 1..Len(X) : layers[l][i] = TransformOf(written[l], i)

FirstPos(v) == CHOOSE k \in 1..Len(obs) : obs[k] = v /\ \A j \in 1..(k - 1) : obs[j] # v

-----------------------------------------------------------------------------
(* Row selector / downsampler: tables *)

(* A table is a record [index, columns, rows]: columns is the sequence of   *)
(* column names and rows[i][c] the cell of row i in column c.               *)

\* the largest number of rows of a table handed to downsample_cells
DsMaxRows == 6

\* the largest n_samples (the smallest is -DsMinSamples)
MaxSamples == 3

\* the annotation values of the tables, in sorted order
SortedLabels == <<"a", "b", "c">>

Labels == {SortedLabels[i] : i \in DOMAIN SortedLabels}

\* a call's outcome: the exception raised ("" when it returned), the table
\* returned, whether a warning was emitted
Returned(table) == [raised |-> "", value |-> table, warned |-> FALSE]
Raised(exc) ==
    [raised |-> exc, value |-> [index |-> <<>>, columns |-> <<>>, rows |-> <<>>],
     warned |-> FALSE]

Min(a, b) == IF a <= b THEN a ELSE b
Max(a, b) == IF a >= b THEN a ELSE b

\* name in df.columns
HasColumn(df, name) == \E c \in DOMAIN df.columns : df.columns[c] = name

\* df[name]: the cells of the column
Series(df, name) ==
    Column(df.rows, CHOOSE c \in DOMAIN df.columns : df.columns[c] = name)

\* df.head(n): the first n rows; all but the last -n rows when n is negative
HeadCount(len, n) == IF n >= 0 THEN Min(n, len) ELSE Max(len + n, 0)

\* mutant of HeadRows: the last rows instead of the first (tail for head)
TailRows(df, n) ==
    LET k == HeadCount(Len(df.rows), n)
    IN  [index   |-> SubSeq(df.index, Len(df.rows) - k + 1, Len(df.rows)),
         columns |-> df.columns,
         rows    |-> SubSeq(df.rows, Len(df.rows) - k + 1, Len(df.rows))]

HeadRows(df, n) ==
    LET k == HeadCount(Len(df.rows), n)
    IN  [index   |-> SubSeq(df.index, 1, k),
         columns |-> df.columns,
         rows    |-> SubSeq(df.rows, 1, k)]

\* df.iloc[positions]
RECURSIVE TakeSeq(_, _)
TakeSeq(seq, positions) ==
    IF positions = <<>> THEN <<>>
    ELSE <<seq[Head(positions)]>> \o TakeSeq(seq, Tail(positions))

TakeRows(df, positions) ==
    [index   |-> TakeSeq(df.index, positions),
     columns |-> df.columns,
     rows    |-> TakeSeq(df.rows, positions)]

\* mutant of Arrangements: sampling with replacement
RECURSIVE ArrangementsWithReplacement(_, _)
ArrangementsWithReplacement(S, k) ==
    IF k = 0 THEN {<<>>}
    ELSE UNION {{<<x>> \o t : t \in ArrangementsWithReplacement(S, k - 1)} : x \in S}

\* the sequences of k distinct elements of S: the draws of sample(k)
RECURSIVE Arrangements(_, _)
Arrangements(S, k) ==
    IF k = 0 THEN {<<>>}
    ELSE UNION {{<<x>> \o t : t \in Arrangements(S \ {x}, k - 1)} : x \in S}

\* df.sample(n), 0 <= n <= len(df): every draw of n rows without replacement
SampleRows(df, n) == {TakeRows(df, pos) : pos \in Arrangements(1..Len(df.rows), n)}

\* the rows of df whose column `name` holds value
GroupData(df, name, value) ==
    LET mask == EqMask(Series(df, name), value)
    IN  [index   |-> MaskSeq(df.index, mask),
         columns |-> df.columns,
         rows    |-> MaskSeq(df.rows, mask)]

\* df.groupby(name): the group keys, sorted
RECURSIVE PresentLabels(_, _)
PresentLabels(series, labels) ==
    IF labels = <<>> THEN <<>>
    ELSE (IF \E i \in DOMAIN series : series[i] = Head(labels)
          THEN <<Head(labels)>> ELSE <<>>) \o PresentLabels(series, Tail(labels))

GroupKeys(df, name) == PresentLabels(Series(df, name), SortedLabels)

\* pd.concat of tables with the same columns
ConcatTables(a, b) ==
    [index |-> a.index \o b.index, columns |-> a.columns, rows |-> a.rows \o b.rows]

\* mutant of Trunc: the share rounded up
CeilDiv(a, b) == IF a >= 0 THEN (a + b - 1) \div b ELSE 0 - ((0 - a) \div b)

\* astype(int) of the float a / b (b > 0): truncated towards zero
Trunc(a, b) == IF a >= 0 THEN a \div b ELSE 0 - ((0 - a) \div b)

\* n_samples_per_group.get(group, 0): the group's frequency, a float, times
\* n_samples, the float product truncated
GroupShare(df, name, group, n_samples) ==
    LET freq    == FDiv(RInt(Len(GroupData(df, name, group).rows)), RInt(Len(df.rows)))
        product == FMul(freq, RInt(n_samples))
    IN  Trunc(product[1], product[2])

\* the stratified loop over the groups keys: the set of possible values of
\* pd.concat(samples), given the concatenation so far
RECURSIVE StratifiedSamples(_, _, _, _, _, _)
StratifiedSamples(df, name, keys, n_samples, rand, sofar) ==
    IF keys = <<>> THEN {sofar}
    ELSE LET group_data      == GroupData(df, name, Head(keys))
             n_group_samples == GroupShare(df, name, Head(keys), n_samples)
             k               == Min(n_group_samples, Len(group_data.rows))
             sampled         == IF rand THEN SampleRows(group_data, k)
                                ELSE {HeadRows(group_data, k)}
         IN  UNION {StratifiedSamples(df, name, Tail(keys), n_samples, rand,
                                      ConcatTables(sofar, s)) : s \in sampled}

\* the non-stratified selection: the first n rows of every group, group after group
RECURSIVE HeadOfGroups(_, _, _, _)
HeadOfGroups(df, name, keys, n_samples) ==
    IF keys = <<>> THEN [index |-> <<>>, columns |-> df.columns, rows |-> <<>>]
    ELSE LET x == GroupData(df, name, Head(keys))
         IN  ConcatTables(HeadRows(x, Min(n_samples, Len(x.rows))),
                          HeadOfGroups(df, name, Tail(keys), n_samples))

\* df.reset_index(drop=True)
ResetIndex(df) ==
    [index |-> RangeIndex(Len(df.rows)), columns |-> df.columns, rows |-> df.rows]

\* downsample_cells(data, annotation, n_samples, stratify, rand): the set of its
\* possible outcomes (n_samples is <<>> for None, <<n>> for the integer n)
downsample_cells(df, annotation, n_samples, stratify, rand) ==
    IF ~HasColumn(df, annotation) THEN {Raised("ValueError")}
    ELSE IF n_samples = <<>> THEN {Returned(df)}
    ELSE IF stratify
    THEN LET keys == GroupKeys(df, annotation)
             \* sample(n) with a negative n raises
             negative == \E i \in DOMAIN keys :
                            GroupShare(df, annotation, keys[i], n_samples[1]) < 0
         IN  IF keys = <<>> THEN {Raised("ValueError")}  \* pd.concat([]) raises
             ELSE IF rand /\ negative THEN {Raised("ValueError")}
             ELSE {Returned(t) :
                     t \in StratifiedSamples(df, annotation, keys, n_samples[1], rand,
                             [index |-> <<>>, columns |-> df.columns, rows |-> <<>>])}
    ELSE LET grouped == HeadOfGroups(df, annotation, GroupKeys(df, annotation),
                                     n_samples[1])
             \* when the function returned every group whole (each result indexed
             \* like its group), apply() of pandas before 2.0 gives the rows back in
             \* their original order, apply() of pandas 2 group after group
             whole   == Len(grouped.rows) = Len(df.rows)
         IN  {Returned(ResetIndex(grouped))}
             \cup (IF whole THEN {Returned(ResetIndex(df))} ELSE {})

DownsampleCells ==
    /\ ret = <<>>
    /\ \E r \in downsample_cells(data, args.annotation, args.n_samples,
                                 args.stratify, args.rand) : ret' = <<r>>
    /\ UNCHANGED <<data, args, locals, matrixVars>>

\* the tables: an annotation column and a column numbering the rows
DsTables ==
    UNION {{[index   |-> RangeIndex(n),
             columns |-> <<"annotation", "value">>,
             rows    |-> [i \in 1..n |-> <<lab[i], i>>]] : lab \in [1..n -> Labels]}
           : n \in 0..DsMaxRows}

InitDownsample ==
    /\ data \in DsTables
    /\ args \in [annotation : {"annotation", "region"},
                 n_samples  : {<<>>} \cup {<<n>> : n \in (0 - 1)..MaxSamples},
                 stratify   : BOOLEAN,
                 rand       : BOOLEAN]
    /\ ret = <<>>
    /\ locals = <<>>
    /\ X = <<>> /\ obs = <<>> /\ layers = <<>> /\ written = <<>> /\ new_df = <<>>

NextDownsample == DownsampleCells

SpecDownsample == InitDownsample /\ [][NextDownsample]_vars

-----------------------------------------------------------------------------
(* Properties of downsample_cells (SpecDownsample) *)

\* the call returned a table for an integer n_samples
DsReturned == ret # <<>> /\ ret[1].raised = "" /\ args.n_samples # <<>>

\* the rows of the table whose annotation is g
RowsOf(table, g) == SelectSeq(table.rows, LAMBDA r : r[1] = g)

\* the sum over the labels of min(n, number of rows of the label)
RECURSIVE SumOfMinima(_, _, _)
SumOfMinima(table, n, labels) ==
    IF labels = <<>> THEN 0
    ELSE Min(n, Len(RowsOf(table, Head(labels)))) + SumOfMinima(table, n, Tail(labels))

\* C4 as stated, for the sample counts n_samples >= 0 among its integers: the
\* returned table has at most n_samples rows, stratified or not.
C4_AtMostNSamples ==
    (DsReturned /\ args.n_samples[1] >= 0) =>
        Len(ret[1].value.rows) <= args.n_samples[1]

\* C4 amended: for n_samples >= 0, the stratified result has at most n_samples
\* rows in total; the non-stratified result has at most n_samples rows of every
\* annotation group (at most n_samples times the number of groups in total).
C4_AtMostNSamplesAmended ==
    (DsReturned /\ args.n_samples[1] >= 0) =>
        LET n   == args.n_samples[1]
            out == ret[1].value
        IN  IF args.stratify THEN Len(out.rows) <= n
            ELSE /\ \A g \in Labels : Len(RowsOf(out, g)) <= n
                 /\ Len(out.rows) <= n * Cardinality({g \in Labels : RowsOf(data, g) # <<>>})

\* C4 witness: a stratified call returned exactly n_samples rows from a larger table
C4_Witness ==
    /\ DsReturned
    /\ args.stratify
    /\ args.n_samples[1] = 3
    /\ Len(ret[1].value.rows) = 3
    /\ Len(data.rows) = 6

-----------------------------------------------------------------------------
(* Row selector: select_values *)

\* the largest number of rows of a table handed to select_values
SelMaxRows == 3

\* the index labels of the tables (a table's index need not be 1..n)
IndexLabels == 0..SelMaxRows

\* the values of the annotation column
SelLabels == {"A", "B"}

\* the value lists select_values is called with
ValueLists == {<<>>, <<"A">>, <<"B">>, <<"B", "A">>, <<"C">>}

\* DataFrame.empty: no rows, or no columns
Empty(df) == Len(df.index) = 0 \/ Len(df.columns) = 0

\* mutant of Isin: only the first value of the list is compared
RECURSIVE IsinFirst(_, _)
IsinFirst(series, values) ==
    IF series = <<>> THEN <<>>
    ELSE <<values # <<>> /\ Head(series) = values[1]>> \o IsinFirst(Tail(series), values)

\* series.isin(values): the boolean mask of the cells that are in the list
RECURSIVE Isin(_, _)
Isin(series, values) ==
    IF series = <<>> THEN <<>>
    ELSE <<\E k \in DOMAIN values : values[k] = Head(series)>> \o Isin(Tail(series), values)

\* data[mask]: the rows of the table where the mask holds, with their index labels
FilterRows(df, mask) ==
    [index   |-> MaskSeq(df.index, mask),
     columns |-> df.columns,
     rows    |-> MaskSeq(df.rows, mask)]

\* mutant of select_values: the column is looked up only when values are given
select_values_late_check(df, annotation, values) ==
    IF ~Empty(df) /\ values # <<>>
    THEN IF ~HasColumn(df, annotation) THEN Raised("ValueError")
         ELSE LET filtered_data == FilterRows(df, Isin(Series(df, annotation), values[1]))
              IN  [raised |-> "", value |-> filtered_data, warned |-> Empty(filtered_data)]
    ELSE Returned(df)

\* select_values(data, annotation, values): its outcome (values is <<>> for None,
\* <<list>> for a list)
select_values(df, annotation, values) ==
    IF ~Empty(df)
    THEN IF ~HasColumn(df, annotation) THEN Raised("ValueError")
         ELSE IF values # <<>>
         THEN LET filtered_data == FilterRows(df, Isin(Series(df, annotation), values[1]))
              IN  [raised |-> "", value |-> filtered_data, warned |-> Empty(filtered_data)]
         ELSE Returned(df)
    ELSE Returned(df)

SelectValues ==
    /\ ret = <<>>
    /\ ret' = <<select_values(data, args.annotation, args.values)>>
    /\ UNCHANGED <<data, args, locals, matrixVars>>

\* the one-to-one sequences of n index labels
InjectiveIndex(n) ==
    {idx \in [1..n -> IndexLabels] : \A i, j \in 1..n : i # j => idx[i] # idx[j]}

\* the tables: one column (the annotation column1, or another column2) or no
\* column at all, under any index of distinct labels
SelTables ==
    UNION {UNION {{[index   |-> idx,
                    columns |-> cols,
                    rows    |-> [i \in 1..n |-> IF cols = <<>> THEN <<>> ELSE <<lab[i]>>]]
                   : idx \in InjectiveIndex(n), lab \in [1..n -> SelLabels]}
                  : cols \in {<<"column1">>, <<"column2">>, <<>>}}
           : n \in 0..SelMaxRows}

InitSelect ==
    /\ data \in SelTables
    /\ args \in [annotation : {"column1"},
                 values     : {<<>>} \cup {<<v>> : v \in ValueLists}]
    /\ ret = <<>>
    /\ locals = <<>>
    /\ X = <<>> /\ obs = <<>> /\ layers = <<>> /\ written = <<>> /\ new_df = <<>>

NextSelect == SelectValues

SpecSelect == InitSelect /\ [][NextSelect]_vars

-----------------------------------------------------------------------------
(* Properties of select_values (SpecSelect) *)

\* the (index label, row) pairs of a table, in row order
IndexedRows(table) == [i \in 1..Len(table.index) |-> <<table.index[i], table.rows[i]>>]

\* the elements of a list
Elements(list) == {list[k] : k \in DOMAIN list}

-----------------------------------------------------------------------------
(* Annotation mapper: append_observation *)

\* the largest number of rows of a table handed to append_observation
AppMaxRows == 2

\* the largest number of rules of a rule list
MaxRules == 2

(* A rule is a string, modelled as the sequence of its tokens: ":" is the    *)
(* separator character, any other token a maximal run of other characters.   *)
RulePool ==
    { <<"1", ":", "x">>, <<"1", ":", "y">>, <<"0", ":", "x">>, <<"False", ":", "y">>,
      <<"x", ":", "1">>, <<":", "x">>, <<"1", ":">>,
      <<"1">>, <<"1", ":", "x", ":", "y">> }

\* the values a source column of each dtype can hold
CellsOf(dtype) ==
    CASE dtype = "int64"   -> {<<"int", "0">>, <<"int", "1">>}
      [] dtype = "bool"    -> {<<"bool", "True">>, <<"bool", "False">>}
      [] dtype = "float64" -> {<<"float", "0.5">>, <<"float", "nan">>}
      [] dtype = "object"  -> {<<"str", "1">>, <<"str", "x">>}

Dtypes == {"int64", "bool", "float64", "object"}

\* ':' not in rule
HasSeparator(rule) == \E k \in DOMAIN rule : rule[k] = ":"

\* rule.split(':'): the fields between the separators ("" for an empty field);
\* `field` is the field being read
RECURSIVE SplitFrom(_, _)
SplitFrom(rule, field) ==
    IF rule = <<>> THEN <<field>>
    ELSE IF Head(rule) = ":" THEN <<field>> \o SplitFrom(Tail(rule), "")
    ELSE SplitFrom(Tail(rule), Head(rule))

Split(rule) == SplitFrom(rule, "")

\* value -> str(value): astype(str) of one cell
AsStr(cell) == <<"str", cell[2]>>

\* astype(dtype) of one cell holding a string
AsType(cell, dtype) ==
    CASE dtype = "int64"   -> <<"int", cell[2]>>                  \* int("1")
      [] dtype = "float64" -> <<"float", cell[2]>>                \* float("0.5")
      [] dtype = "bool"    -> <<"bool", IF cell[2] = "" THEN "False" ELSE "True">>
      [] dtype = "object"  -> cell

\* the column c of the rows replaced cell by cell
RECURSIVE SetColumn(_, _, _)
SetColumn(rows, c, cells) ==
    IF rows = <<>> THEN <<>>
    ELSE <<[Head(rows) EXCEPT ![c] = Head(cells)]>> \o SetColumn(Tail(rows), c, Tail(cells))

RECURSIVE AsStrColumn(_)
AsStrColumn(cells) ==
    IF cells = <<>> THEN <<>> ELSE <<AsStr(Head(cells))>> \o AsStrColumn(Tail(cells))

RECURSIVE AsTypeColumn(_, _)
AsTypeColumn(cells, dtype) ==
    IF cells = <<>> THEN <<>>
    ELSE <<AsType(Head(cells), dtype)>> \o AsTypeColumn(Tail(cells), dtype)

\* result_data.loc[result_data[source_column] == source_value, new_column] = new_value
RECURSIVE AssignWhere(_, _, _, _)
AssignWhere(source, new, source_value, new_value) ==
    IF source = <<>> THEN <<>>
    ELSE <<IF Head(source)[2] = source_value THEN <<"str", new_value>> ELSE Head(new)>>
         \o AssignWhere(Tail(source), Tail(new), source_value, new_value)

\* mutant of ApplyRules: the first matching rule wins (the rules applied last to first)
RECURSIVE ApplyRulesFirstWins(_, _, _)
ApplyRulesFirstWins(source, new, mapping_rules) ==
    IF mapping_rules = <<>> THEN new
    ELSE LET rule  == mapping_rules[Len(mapping_rules)]
             parts == Split(rule)
         IN  ApplyRulesFirstWins(source, AssignWhere(source, new, parts[1], parts[2]),
                                 SubSeq(mapping_rules, 1, Len(mapping_rules) - 1))

\* the loop over the rules, each of which splits into two fields: the new column
RECURSIVE ApplyRules(_, _, _)
ApplyRules(source, new, mapping_rules) ==
    IF mapping_rules = <<>> THEN new
    ELSE LET parts == Split(Head(mapping_rules))
         IN  ApplyRules(source, AssignWhere(source, new, parts[1], parts[2]),
                        Tail(mapping_rules))

\* the column filled with "Not_Mapped"
RECURSIVE NotMappedColumn(_)
NotMappedColumn(rows) ==
    IF rows = <<>> THEN <<>> ELSE <<<<"str", "Not_Mapped">>>> \o NotMappedColumn(Tail(rows))

\* result_data[new_column] = ...: the column appended to the rows
RECURSIVE AppendColumn(_, _)
AppendColumn(rows, cells) ==
    IF rows = <<>> THEN <<>>
    ELSE <<Append(Head(rows), Head(cells))>> \o AppendColumn(Tail(rows), Tail(cells))

\* append_observation(data, source_column, new_column, mapping_rules): its
\* outcome.  df.dtype is the dtype of the source column; mapping_rules is
\* [is_list, rules].
append_observation(df, source_column, new_column, mapping_rules) ==
    IF ~HasColumn(df, source_column) THEN Raised("ValueError")
    ELSE IF HasColumn(df, new_column) THEN Raised("ValueError")
    ELSE IF ~mapping_rules.is_list THEN Raised("ValueError")
    ELSE IF \E k \in DOMAIN mapping_rules.rules : ~HasSeparator(mapping_rules.rules[k])
    THEN Raised("ValueError")
    ELSE LET c              == CHOOSE k \in DOMAIN df.columns : df.columns[k] = source_column
             original_dtype == df.dtype
             as_str         == AsStrColumn(Column(df.rows, c))
             \* source_value, new_value = rule.split(':') raises unless there are two fields
             unpack_fails   == \E k \in DOMAIN mapping_rules.rules :
                                  Len(Split(mapping_rules.rules[k])) # 2
             new            == ApplyRules(as_str, NotMappedColumn(df.rows),
                                          mapping_rules.rules)
             restored       == AsTypeColumn(as_str, original_dtype)
         IN  IF unpack_fails THEN Raised("ValueError")
             ELSE Returned([index   |-> df.index,
                            columns |-> Append(df.columns, new_column),
                            dtype   |-> df.dtype,
                            rows    |-> AppendColumn(SetColumn(df.rows, c, restored), new)])

AppendObservation ==
    /\ ret = <<>>
    /\ ret' = <<append_observation(data, args.source_column, args.new_column,
                                   args.mapping_rules)>>
    \* data.copy(): the caller's table is not written
    /\ UNCHANGED <<data, args, locals, matrixVars>>

\* the rule lists of up to MaxRules rules
RuleLists == UNION {[1..n -> RulePool] : n \in 0..MaxRules}

\* the tables: a source column of some dtype and a column numbering the rows
AppTables ==
    UNION {UNION {{[index   |-> RangeIndex(n),
                    columns |-> <<"source", "row">>,
                    dtype   |-> dt,
                    rows    |-> [i \in 1..n |-> <<cells[i], <<"int", ToString(i)>>>>]]
                   : cells \in [1..n -> CellsOf(dt)]}
                  : dt \in Dtypes}
           : n \in 0..AppMaxRows}

InitAppend ==
    /\ data \in AppTables
    /\ args \in [source_column : {"source", "region"},
                 new_column    : {"new", "row"},
                 mapping_rules : [is_list : {TRUE}, rules : RuleLists]
                                 \cup [is_list : {FALSE}, rules : {<<>>}]]
    /\ ret = <<>>
    /\ locals = <<>>
    /\ X = <<>> /\ obs = <<>> /\ layers = <<>> /\ written = <<>> /\ new_df = <<>>

NextAppend == AppendObservation

SpecAppend == InitAppend /\ [][NextAppend]_vars

-----------------------------------------------------------------------------
(* Properties of append_observation (SpecAppend) *)

\* the call returned a table
AppReturned == ret # <<>> /\ ret[1].raised = ""

\* the text before the separator of a rule with one separator, and the text after it
SourceOf(rule) == IF rule[1] = ":" THEN "" ELSE rule[1]
TargetOf(rule) == IF rule[Len(rule)] = ":" THEN "" ELSE rule[Len(rule)]

\* C9: every row's new-column value is the target of the last rule, in list
\* order, whose source value equals the string of the row's source-column value,
\* and "Not_Mapped" when no rule matches.
C9_LastMatchingRule ==
    AppReturned =>
        LET out   == ret[1].value
            rules == args.mapping_rules.rules
        IN  /\ Len(out.rows) = Len(data.rows)
            /\ out.columns = <<"source", "row", args.new_column>>
            /\ \A i \in 1..Len(data.rows) :
                 LET text     == data.rows[i][1][2]
                     matching == {k \in 1..Len(rules) : SourceOf(rules[k]) = text}
                     last     == CHOOSE k \in matching : \A j \in matching : j <= k
                 IN  out.rows[i][3] =
                        IF matching = {} THEN <<"str", "Not_Mapped">>
                        ELSE <<"str", TargetOf(rules[last])>>

\* C9 witness: two rules for the integer 1, the later one won; the row holding 0
\* is not mapped
C9_Witness ==
    /\ AppReturned
    /\ data.dtype = "int64"
    /\ args.mapping_rules.rules = <<<<"1", ":", "x">>, <<"1", ":", "y">>>>
    /\ Column(data.rows, 1) = <<<<"int", "1">>, <<"int", "0">>>>
    /\ Column(ret[1].value.rows, 3) = <<<<"str", "y">>, <<"str", "Not_Mapped">>>>

\* C10: the call leaves the input table as it was, and the returned table agrees
\* with the input on every pre-existing column: every cell, those of the source
\* column included, has the same value and the same value type as before the call.
C10_SourceColumnPreserved ==
    AppReturned =>
        \A i \in 1..Len(data.rows) : \A c \in 1..Len(data.columns) :
            ret[1].value.rows[i][c] = data.rows[i][c]

\* one of the four checks made before the table is copied fails
AppInvalid ==
    \/ ~HasColumn(data, args.source_column)
    \/ HasColumn(data, args.new_column)
    \/ ~args.mapping_rules.is_list
    \/ \E k \in DOMAIN args.mapping_rules.rules :
           ~HasSeparator(args.mapping_rules.rules[k])

\* C11: the call raises the validation error, returning no table, when the
\* source column is absent, the new column exists, the rules are not a list or a
\* rule has no ':'; every other call returns a table without error.
C11_RaisesIffInvalid ==
    ret # <<>> =>
        /\ AppInvalid => ret[1].raised = "ValueError"
        /\ ~AppInvalid => ret[1].raised = ""

-----------------------------------------------------------------------------
(* load_csv_files: the loop over the paths, one iteration per step.  data is *)
(* the file system (path -> file), which no step of the call changes.        *)

\* the largest number of paths of a call
MaxFiles == 3

\* the paths
Paths == {"p1", "p2", "p3"}

\* the column lists of the csv files (read_csv gives distinct column names)
Schemas == {<<"a", "b">>, <<"b", "a">>, <<"a", "c">>, <<"a">>}

\* the table read from a file with these columns: one row, in the file's column order
CsvTable(columns) ==
    [index |-> RangeIndex(1), columns |-> columns, rows |-> <<columns>>]

\* a file: missing, without read permission, empty, malformed, or a csv table
Files ==
    [kind : {"missing", "unreadable", "empty", "malformed"}, table : {<<>>}]
    \cup [kind : {"csv"}, table : {<<CsvTable(s)>> : s \in Schemas}]

\* os.path.exists(file_name)
exists(fs, file_name) == fs[file_name].kind # "missing"

\* os.access(file_name, os.R_OK): false for a missing file too
access(fs, file_name) == fs[file_name].kind \notin {"missing", "unreadable"}

\* pd.read_csv(file_name): the exception it raises, "" when it returns a table
read_csv(fs, file_name) ==
    CASE fs[file_name].kind = "empty"     -> "EmptyDataError"
      [] fs[file_name].kind = "malformed" -> "ParserError"
      [] OTHER                            -> ""

\* mutant of CheckFile: the permission is checked before the existence
CheckFileAccessFirst(fs, file_name) ==
    IF ~access(fs, file_name) THEN "PermissionError"
    ELSE IF ~exists(fs, file_name) THEN "FileNotFoundError"
    ELSE IF read_csv(fs, file_name) # "" THEN "TypeError"
    ELSE ""

\* the checks on one path up to the parsing: the exception raised, "" when the
\* file is read into a table
CheckFile(fs, file_name) ==
    IF ~exists(fs, file_name) THEN "FileNotFoundError"
    ELSE IF ~access(fs, file_name) THEN "PermissionError"
    ELSE IF read_csv(fs, file_name) # "" THEN "TypeError"
    ELSE ""

\* the elements of a list, as a set
ToSet(list) == {list[k] : k \in DOMAIN list}

\* mutant of SchemaMatches: the column lists are compared in order
SchemaMatchesInOrder(meta_schema, current_schema) == meta_schema = current_schema

\* the schema check: the same length and the same set of names
SchemaMatches(meta_schema, current_schema) ==
    IF Len(meta_schema) = Len(current_schema)
    THEN ToSet(meta_schema) = ToSet(current_schema)
    ELSE FALSE

\* the call is entered: file_names that is neither a list nor a str raises, a str
\* becomes a list of one path
LoadEnter ==
    /\ ret = <<>> /\ locals = <<>>
    /\ IF args.type \notin {"list", "str"}
       THEN /\ ret' = <<Raised("TypeError")>>
            /\ locals' = [file_names |-> <<>>, next |-> 1, meta_schema |-> <<>>,
                          dataframe_list |-> <<>>, examined |-> <<>>, read |-> <<>>]
       ELSE /\ ret' = ret
            /\ locals' = [file_names |-> args.file_names, next |-> 1,
                          meta_schema |-> <<>>, dataframe_list |-> <<>>,
                          examined |-> <<>>, read |-> <<>>]
    /\ UNCHANGED <<data, args, matrixVars>>

\* one iteration of `for file_name in file_names`; examined and read record
\* the paths tested with os.path.exists and those passed to pd.read_csv
LoadFile ==
    /\ ret = <<>> /\ locals # <<>>
    /\ locals.next <= Len(locals.file_names)
    /\ LET file_name      == locals.file_names[locals.next]
           failed         == CheckFile(data, file_name)
           was_read       == exists(data, file_name) /\ access(data, file_name)
           seen           == [locals EXCEPT
                                !.examined = Append(@, file_name),
                                !.read = IF was_read THEN Append(@, file_name) ELSE @]
           current_df     == data[file_name].table[1]
           current_schema == current_df.columns
           meta_schema    == IF Len(locals.meta_schema) = 0 THEN current_schema
                             ELSE locals.meta_schema
       IN  IF failed # ""
           THEN /\ ret' = <<Raised(failed)>>
                /\ locals' = seen
           ELSE IF ~SchemaMatches(meta_schema, current_schema)
           THEN /\ ret' = <<Raised("ValueError")>>
                /\ locals' = [seen EXCEPT !.meta_schema = meta_schema]
           ELSE /\ ret' = ret
                /\ locals' = [seen EXCEPT
                                !.meta_schema = meta_schema,
                                !.dataframe_list = Append(@, <<file_name, current_df>>),
                                !.next = @ + 1]
    /\ UNCHANGED <<data, args, matrixVars>>

\* return dataframe_list
LoadReturn ==
    /\ ret = <<>> /\ locals # <<>>
    /\ locals.next > Len(locals.file_names)
    /\ ret' = <<Returned(locals.dataframe_list)>>
    /\ UNCHANGED <<data, args, locals, matrixVars>>

\* the lists of up to MaxFiles paths
PathLists == UNION {[1..n -> Paths] : n \in 0..MaxFiles}

InitLoad ==
    /\ data \in [Paths -> Files]
    /\ args \in [type : {"list"}, file_names : PathLists]
                \cup [type : {"str"}, file_names : {<<p>> : p \in Paths}]
                \cup [type : {"int"}, file_names : {<<>>}]
    /\ ret = <<>>
    /\ locals = <<>>
    /\ X = <<>> /\ obs = <<>> /\ layers = <<>> /\ written = <<>> /\ new_df = <<>>

NextLoad == LoadEnter \/ LoadFile \/ LoadReturn

SpecLoad == InitLoad /\ [][NextLoad]_vars

-----------------------------------------------------------------------------
(* Properties of load_csv_files (SpecLoad) *)

\* the call was made with a list of paths or with one path
LoadCalled == args.type \in {"list", "str"}

\* the file at position k of the paths is a csv table
Parsable(k) == data[args.file_names[k]].kind = "csv"

\* the columns of the file at position k, a parsable file
ColumnsAt(k) == data[args.file_names[k]].table[1].columns

\* the file at position k has as many columns as the first file, and the same names
SameColumnsAsFirst(k) ==
    /\ Len(ColumnsAt(k)) = Len(ColumnsAt(1))
    /\ {ColumnsAt(k)[c] : c \in 1..Len(ColumnsAt(k))}
         = {ColumnsAt(1)[c] : c \in 1..Len(ColumnsAt(1))}

\* C12: on N readable, parsable files the call returns the N (path, table)
\* pairs in input order when every file has the column count and the column
\* names of the first file, in any order; when a later file's columns differ it
\* raises the schema-mismatch error and returns no list.
C12_SameSchemaLoadsAll ==
    (ret # <<>> /\ LoadCalled /\ \A k \in DOMAIN args.file_names : Parsable(k)) =>
        IF \A k \in DOMAIN args.file_names : SameColumnsAsFirst(k)
        THEN /\ ret[1].raised = ""
             /\ ret[1].value = [k \in DOMAIN args.file_names |->
                                   <<args.file_names[k],
                                     data[args.file_names[k]].table[1]>>]
        ELSE ret[1].raised = "ValueError"

\* C12 witness: three files were loaded whose column orders differ
C12_Witness ==
    /\ ret # <<>>
    /\ ret[1].raised = ""
    /\ args.file_names = <<"p2", "p1", "p3">>
    /\ Len(ret[1].value) = 3
    /\ ret[1].value[1][2].columns = <<"a", "b">>
    /\ ret[1].value[2][2].columns = <<"b", "a">>

\* the path at position k cannot be loaded: missing, unreadable, unparsable, or
\* with other columns than the first file
BadPath(k) ==
    \/ ~Parsable(k)
    \/ Parsable(1) /\ ~SameColumnsAsFirst(k)

\* the error of the path at position k
ErrorOfPath(k) ==
    CASE data[args.file_names[k]].kind = "missing"    -> "FileNotFoundError"
      [] data[args.file_names[k]].kind = "unreadable" -> "PermissionError"
      [] data[args.file_names[k]].kind \in {"empty", "malformed"} -> "TypeError"
      [] OTHER -> "ValueError"

\* C13: the paths are examined one at a time in caller order, up to the first
\* path that is missing, unreadable, unparsable or schema-mismatching; the call
\* then raises the error of that path (a missing file is reported as missing,
\* not as unreadable), examines and reads no later path and returns no list.
C13_StopsAtFirstBadPath ==
    (locals # <<>> /\ LoadCalled) =>
        LET names == args.file_names
            bad   == {k \in DOMAIN names : BadPath(k)}
            first == CHOOSE k \in bad : \A j \in bad : k <= j
            n     == Len(locals.examined)
        IN  /\ n <= Len(names)
            /\ locals.examined = SubSeq(names, 1, n)
            /\ \A k \in DOMAIN locals.read :
                   \E j \in 1..n : locals.read[k] = names[j]
            /\ bad # {} =>
                 /\ n <= first
                 /\ ret # <<>> =>
                      /\ n = first
                      /\ ret[1].raised = ErrorOfPath(first)
                      /\ Len(locals.read) =
                           IF data[names[first]].kind \in {"missing", "unreadable"}
                           THEN first - 1 ELSE first

\* C13 witness: the second of three paths is missing and the third unreadable;
\* the call raised the not-found error after two paths
C13_Witness ==
    /\ ret # <<>>
    /\ LoadCalled
    /\ Len(args.file_names) = 3
    /\ data[args.file_names[2]].kind = "missing"
    /\ data[args.file_names[3]].kind = "unreadable"
    /\ ret[1].raised = "FileNotFoundError"
    /\ locals.examined = SubSeq(args.file_names, 1, 2)
    /\ locals.read = SubSeq(args.file_names, 1, 1)

-----------------------------------------------------------------------------
(* combine_dfs: the loop over the (file name, table) pairs, one iteration    *)
(* per step.  args holds the arguments as they were at the call; data holds  *)
(* the caller's tables as they are now (the loop writes into them).          *)

\* the largest number of (file name, table) pairs of a call
MaxPairs == 2

\* the file names of the pairs
PairPaths == {"p1", "p2"}

\* the column lists of the tables (distinct names, at least one column)
PairSchemas == {<<"a", "b">>, <<"b", "a">>, <<"a">>}

\* the row counts of the tables
PairRowCounts == {0, 2}

\* the annotation values
AnnValues == {"x", "y"}

\* the index of the annotations table: distinct file names
AnnIndexes == {<<>>, <<"p1">>, <<"p2">>, <<"p1", "p2">>, <<"p2", "p1">>}

\* the annotations tables: one annotation column, whose name is no table column
AnnTables ==
    UNION {{[index |-> idx, columns |-> <<"region">>,
             rows |-> [i \in 1..Len(idx) |-> <<v[i]>>]]
            : v \in [1..Len(idx) -> AnnValues]}
           : idx \in AnnIndexes}

\* the table of the pair at position k: the cell of row r in column c is the
\* text c k r, so that every cell of a call is different
PairTable(schema, n, k) ==
    [index   |-> RangeIndex(n),
     columns |-> schema,
     rows    |-> [r \in 1..n |->
                    [c \in 1..Len(schema) |-> schema[c] \o ToString(k) \o ToString(r)]]]

\* the lists of up to MaxPairs pairs
PairLists ==
    UNION {{[k \in 1..n |-> <<shape[k][1], PairTable(shape[k][2], shape[k][3], k)>>]
            : shape \in [1..n -> PairPaths \X PairSchemas \X PairRowCounts]}
           : n \in 0..MaxPairs}

\* mutant of HasAnnotation: every file name passes the check
HasAnnotationAlways(annotations, file_name) == TRUE

\* file_name in annotations.index
HasAnnotation(annotations, file_name) ==
    \E i \in DOMAIN annotations.index : annotations.index[i] = file_name

\* annotations.loc[file_name]: <<the row of the file name>>, <<>> when the
\* index has no such label (KeyError)
loc(annotations, file_name) ==
    IF \E i \in DOMAIN annotations.index : annotations.index[i] = file_name
    THEN <<annotations.rows[CHOOSE i \in DOMAIN annotations.index :
                                annotations.index[i] = file_name]>>
    ELSE <<>>

\* df[name] = value, value a scalar: the column is overwritten if it exists and
\* appended otherwise
AssignColumn(df, name, value) ==
    IF HasColumn(df, name)
    THEN LET c == CHOOSE k \in DOMAIN df.columns : df.columns[k] = name
         IN  [df EXCEPT !.rows = [r \in DOMAIN df.rows |-> [df.rows[r] EXCEPT ![c] = value]]]
    ELSE [df EXCEPT !.columns = Append(@, name),
                    !.rows = [r \in DOMAIN df.rows |-> Append(df.rows[r], value)]]

\* for name, value in file_annotations.iteritems(): current_df[name] = value
RECURSIVE AssignAnnotations(_, _, _)
AssignAnnotations(df, names, values) ==
    IF names = <<>> THEN df
    ELSE AssignAnnotations(AssignColumn(df, Head(names), Head(values)),
                           Tail(names), Tail(values))

\* mutant of ConcatAligned: the rows of b are appended cell by cell, in b's
\* column order
ConcatByPosition(a, b) ==
    [index |-> a.index \o b.index, columns |-> a.columns, rows |-> a.rows \o b.rows]

\* pd.concat([a, b]) of tables with the same set of distinct column names: the
\* columns of a, the rows of b aligned to them by name
ConcatAligned(a, b) ==
    [index   |-> a.index \o b.index,
     columns |-> a.columns,
     rows    |-> a.rows \o
                 [r \in DOMAIN b.rows |->
                    [c \in DOMAIN a.columns |->
                       b.rows[r][CHOOSE k \in DOMAIN b.columns :
                                     b.columns[k] = a.columns[c]]]]]

\* pd.DataFrame()
EmptyDataFrame == [index |-> <<>>, columns |-> <<>>, rows |-> <<>>]

\* the call is entered: annotations that is not a DataFrame raises
CombineEnter ==
    /\ ret = <<>> /\ locals = <<>>
    /\ locals' = [next |-> 1, meta_schema |-> <<>>,
                  combined_dataframe |-> EmptyDataFrame]
    /\ ret' = IF args.annotations_type # "DataFrame" THEN <<Raised("TypeError")>> ELSE ret
    /\ UNCHANGED <<data, args, matrixVars>>

\* one iteration of `for current_df_list in dataframes`.  current_df is the
\* caller's table: the annotation columns are written into it.  pd.concat of
\* tables with the same set of distinct column names does not raise, so the
\* except branch around it is never taken.
CombineFile ==
    /\ ret = <<>> /\ locals # <<>>
    /\ locals.next <= Len(args.dataframes)
    /\ LET k              == locals.next
           file_name      == args.dataframes[k][1]
           current_df     == data.dataframes[k]
           current_schema == current_df.columns
           meta_schema    == IF Len(locals.meta_schema) = 0 THEN current_schema
                             ELSE locals.meta_schema
           row            == loc(args.annotations, file_name)
           annotated      == AssignAnnotations(current_df, args.annotations.columns, row[1])
           combined       == IF Empty(locals.combined_dataframe) THEN annotated
                             ELSE ConcatAligned(locals.combined_dataframe, annotated)
       IN  IF ~SchemaMatches(meta_schema, current_schema)
           THEN /\ ret' = <<Raised("ValueError")>>
                /\ locals' = [locals EXCEPT !.meta_schema = meta_schema]
                /\ data' = data
           ELSE IF ~HasAnnotation(args.annotations, file_name)
           THEN /\ ret' = <<Raised("ValueError")>>
                /\ locals' = [locals EXCEPT !.meta_schema = meta_schema]
                /\ data' = data
           ELSE IF row = <<>>
           THEN /\ ret' = <<Raised("KeyError")>>
                /\ locals' = [locals EXCEPT !.meta_schema = meta_schema]
                /\ data' = data
           ELSE IF ~data.iteritems
           THEN /\ ret' = <<Raised("AttributeError")>>
                /\ locals' = [locals EXCEPT !.meta_schema = meta_schema]
                /\ data' = data
           ELSE /\ ret' = ret
                /\ locals' = [next |-> k + 1, meta_schema |-> meta_schema,
                              combined_dataframe |-> combined]
                /\ data' = [data EXCEPT !.dataframes[k] = annotated]
    /\ UNCHANGED <<args, matrixVars>>

\* combined_dataframe.reset_index(drop=True, inplace=True); return it
CombineReturn ==
    /\ ret = <<>> /\ locals # <<>>
    /\ locals.next > Len(args.dataframes)
    /\ ret' = <<Returned(ResetIndex(locals.combined_dataframe))>>
    /\ UNCHANGED <<data, args, locals, matrixVars>>

\* data.iteritems: Series.iteritems exists (pandas before 2.0)
InitCombine ==
    /\ args \in [dataframes : PairLists, annotations_type : {"DataFrame"},
                 annotations : AnnTables]
                \cup [dataframes : PairLists, annotations_type : {"dict"},
                      annotations : {EmptyDataFrame}]
    /\ data \in [dataframes : {[k \in DOMAIN args.dataframes |-> args.dataframes[k][2]]},
                 iteritems  : BOOLEAN]
    /\ ret = <<>>
    /\ locals = <<>>
    /\ X = <<>> /\ obs = <<>> /\ layers = <<>> /\ written = <<>> /\ new_df = <<>>

NextCombine == CombineEnter \/ CombineFile \/ CombineReturn

SpecCombine == InitCombine /\ [][NextCombine]_vars

-----------------------------------------------------------------------------
(* Properties of combine_dfs (SpecCombine) *)

\* the call was made with an annotations DataFrame
CombineCalled == args.annotations_type = "DataFrame"

\* the file name of the pair at position k is an entry of the annotations index
Annotated(k) ==
    \E i \in DOMAIN args.annotations.index :
        args.annotations.index[i] = args.dataframes[k][1]

\* C14: when the path of at least one pair is not an entry of the annotations
\* index, the call fails with an error of its own (ValueError, or the
\* AttributeError of an earlier pair where Series.iteritems does not exist) and
\* returns no merged table.
C14_FailsOnMissingAnnotation ==
    (ret # <<>> /\ CombineCalled /\ \E k \in DOMAIN args.dataframes : ~Annotated(k)) =>
        ret[1].raised \in {"ValueError", "AttributeError"}

\* C14 witness: the first pair was merged, the second has no annotation entry
\* and the call raised
C14_Witness ==
    /\ ret # <<>>
    /\ CombineCalled
    /\ data.iteritems
    /\ Len(args.dataframes) = 2
    /\ Annotated(1) /\ ~Annotated(2)
    /\ locals.next = 2
    /\ Len(locals.combined_dataframe.rows) = 2
    /\ ret[1].raised = "ValueError"

\* the number of rows of the tables before position k
RECURSIVE RowsBefore(_)
RowsBefore(k) ==
    IF k <= 1 THEN 0 ELSE RowsBefore(k - 1) + Len(args.dataframes[k - 1][2].rows)

\* the cell of a row of the table in the column of that name
CellOf(table, i, name) ==
    table.rows[i][CHOOSE c \in DOMAIN table.columns : table.columns[c] = name]

\* C15: when the call returns, the merged table holds the rows of every input
\* table, tables in input order and rows in their order within a table (as many
\* rows as the inputs have together); every row holds its cells under their
\* column names and the annotation values of its own file; the row identifiers
\* are the dense sequence in that order (0..n-1, here numbered from 1).
C15_MergedRowsInOrder ==
    (ret # <<>> /\ ret[1].raised = "") =>
        LET out == ret[1].value
            dfs == args.dataframes
            n   == RowsBefore(Len(dfs) + 1)
        IN  /\ Len(out.rows) = n
            /\ out.index = RangeIndex(n)
            /\ \A k \in DOMAIN dfs : \A r \in DOMAIN dfs[k][2].rows :
                 LET i == RowsBefore(k) + r
                 IN  /\ \A c \in DOMAIN dfs[k][2].columns :
                            CellOf(out, i, dfs[k][2].columns[c]) = dfs[k][2].rows[r][c]
                     /\ \A a \in DOMAIN args.annotations.columns :
                            CellOf(out, i, args.annotations.columns[a])
                              = loc(args.annotations, dfs[k][1])[1][a]

\* C15 witness: two tables of two rows whose column orders and annotation
\* values differ were merged into four rows
C15_Witness ==
    /\ ret # <<>>
    /\ ret[1].raised = ""
    /\ Len(args.dataframes) = 2
    /\ args.dataframes[1][2].columns = <<"a", "b">>
    /\ args.dataframes[2][2].columns = <<"b", "a">>
    /\ args.dataframes[1][1] # args.dataframes[2][1]
    /\ ret[1].value.index = <<1, 2, 3, 4>>
    /\ Column(ret[1].value.rows, 3) = <<"x", "x", "y", "y">>

-----------------------------------------------------------------------------
(* ingest_cells.  A column name and a pattern are sequences of characters.   *)
(* The calls are made without coordinate columns (x_col = y_col = None).     *)

\* the largest number of rows of the table
IngestMaxRows == 1

\* the largest number of patterns of a call
MaxPatterns == 2

\* dataframe.columns: two feature columns and a column numbering the cells
IngestColumns == <<<<"f", "1">>, <<"f", "2">>, <<"x">>>>

\* the dtypes of the feature columns
NumericDtypes == {"int64", "float64"}

\* the values of a numeric column of that dtype, as rationals
NumbersOf(dtype) == IF dtype = "int64" THEN {<<0, 1>>, <<1, 1>>} ELSE {<<1, 2>>, <<1, 1>>}

\* the patterns: characters, "." standing for any character
Patterns == {<<"f">>, <<"f", "1">>, <<".", "2">>, <<"x">>, <<"z">>}

\* annotation: <<>> for None, <<name>> for a column name
AnnotationArgs == {<<>>, <<<<"x">>>>, <<<<"q">>>>}

\* the tables of up to IngestMaxRows rows
IngestTables ==
    UNION {UNION {{[index   |-> RangeIndex(n),
                    columns |-> IngestColumns,
                    dtypes  |-> <<dt[1], dt[2], "int64">>,
                    rows    |-> [r \in 1..n |-> <<cells[r][1], cells[r][2], <<r, 1>>>>]]
                   : cells \in [1..n -> NumbersOf(dt[1]) \X NumbersOf(dt[2])]}
                  : dt \in NumericDtypes \X NumericDtypes}
           : n \in 0..IngestMaxRows}

\* re.search(pattern, string) for a pattern of characters and ".": the pattern
\* matches somewhere in the string
regex_search(pattern, string) ==
    \E i \in 0..(Len(string) - Len(pattern)) :
        \A j \in 1..Len(pattern) : pattern[j] = "." \/ pattern[j] = string[i + j]

\* regex_search_list(regex_patterns, list_to_search): the elements of the list
\* that some pattern matches, in list order
RECURSIVE regex_search_list(_, _)
regex_search_list(regex_patterns, list_to_search) ==
    IF list_to_search = <<>> THEN <<>>
    ELSE (IF \E p \in DOMAIN regex_patterns :
                 regex_search(regex_patterns[p], Head(list_to_search))
          THEN <<Head(list_to_search)>> ELSE <<>>)
         \o regex_search_list(regex_patterns, Tail(list_to_search))

\* mutant of CollectFeatures: a pattern that matches no column is passed over
RECURSIVE CollectFeaturesUnchecked(_, _, _)
CollectFeaturesUnchecked(regex_list, all_columns, all_features) ==
    IF regex_list = <<>> THEN [raised |-> "", all_features |-> all_features]
    ELSE CollectFeaturesUnchecked(Tail(regex_list), all_columns,
             all_features \o regex_search_list(<<Head(regex_list)>>, all_columns))

\* the loop `for column in regex_list`: the features collected pattern by
\* pattern, ValueError at the first pattern that matches no column
RECURSIVE CollectFeatures(_, _, _)
CollectFeatures(regex_list, all_columns, all_features) ==
    IF regex_list = <<>> THEN [raised |-> "", all_features |-> all_features]
    ELSE LET current_features == regex_search_list(<<Head(regex_list)>>, all_columns)
         IN  IF Len(current_features) = 0
             THEN [raised |-> "ValueError", all_features |-> all_features]
             ELSE CollectFeatures(Tail(regex_list), all_columns,
                                  all_features \o current_features)

\* the position of a column name in the columns of a table
ColumnIndex(df, name) == CHOOSE c \in DOMAIN df.columns : df.columns[c] = name

\* dataframe[all_features]: the named columns, in that order, a name given
\* twice giving two columns
SelectColumns(df, names) ==
    [index   |-> df.index,
     columns |-> names,
     dtypes  |-> [j \in DOMAIN names |-> df.dtypes[ColumnIndex(df, names[j])]],
     rows    |-> [r \in DOMAIN df.rows |->
                    [j \in DOMAIN names |-> df.rows[r][ColumnIndex(df, names[j])]]]]

\* np.array(X, dtype) of one value: a float is truncated towards zero by int64
Cast(value, dtype) ==
    IF dtype = "int64" THEN <<Trunc(value[1], value[2]), 1>> ELSE value

\* ad.AnnData(features_df, dtype=dtype): every value is cast to the one dtype
AnnData(features_df, dtype) ==
    [X         |-> [r \in DOMAIN features_df.rows |->
                      [j \in DOMAIN features_df.columns |->
                         Cast(features_df.rows[r][j], dtype)]],
     dtype     |-> dtype,
     obs_names |-> features_df.index,
     var_names |-> features_df.columns,
     obs       |-> <<>>]

\* ingest_cells(dataframe, regex_str, annotation=annotation): its outcome.
\* regex_str is [type, patterns]: a str is the list of itself.
ingest_cells(dataframe, regex_str, annotation) ==
    LET regex_list  == regex_str.patterns
        all_columns == dataframe.columns
        collected   == CollectFeatures(regex_list, all_columns, <<>>)
        features    == collected.all_features
        features_df == SelectColumns(dataframe, features)
        \* features_df[all_features[0]] is a DataFrame, which has no dtype, when
        \* the first feature was collected more than once
        first_twice == Cardinality({j \in DOMAIN features : features[j] = features[1]}) > 1
        adata       == AnnData(features_df, features_df.dtypes[1])
    IN  IF collected.raised # "" THEN Raised(collected.raised)
        \* regex_list is empty: all_features[0] is out of range
        ELSE IF features = <<>> THEN Raised("IndexError")
        ELSE IF first_twice THEN Raised("AttributeError")
        ELSE IF annotation = <<>> THEN Returned(adata)
        ELSE IF ~HasColumn(dataframe, annotation[1]) THEN Raised("KeyError")
        ELSE Returned([adata EXCEPT
                          !.obs = <<[name   |-> annotation[1],
                                     values |-> Series(dataframe, annotation[1])]>>])

IngestCells ==
    /\ ret = <<>>
    /\ ret' = <<ingest_cells(data, args.regex_str, args.annotation)>>
    /\ UNCHANGED <<data, args, locals, matrixVars>>

\* the lists of up to MaxPatterns patterns
PatternLists == UNION {[1..n -> Patterns] : n \in 0..MaxPatterns}

InitIngest ==
    /\ data \in IngestTables
    /\ args \in [regex_str  : [type : {"list"}, patterns : PatternLists]
                              \cup [type : {"str"}, patterns : {<<p>> : p \in Patterns}],
                 annotation : AnnotationArgs]
    /\ ret = <<>>
    /\ locals = <<>>
    /\ X = <<>> /\ obs = <<>> /\ layers = <<>> /\ written = <<>> /\ new_df = <<>>

NextIngest == IngestCells

SpecIngest == InitIngest /\ [][NextIngest]_vars

-----------------------------------------------------------------------------
(* Properties of ingest_cells (SpecIngest) *)

\* the columns of the table that the pattern matches
MatchedBy(pattern) ==
    {data.columns[c] : c \in {k \in DOMAIN data.columns :
                                 regex_search(pattern, data.columns[k])}}

\* C16: the features of the built matrix are exactly the table columns whose
\* name matches at least one of the patterns; when some pattern matches no
\* column the call raises the validation error and builds no matrix, even if
\* other patterns match.
C16_FeaturesMatchPatterns ==
    ret # <<>> =>
        LET patterns == args.regex_str.patterns
        IN  /\ (\E p \in DOMAIN patterns : MatchedBy(patterns[p]) = {})
                 => ret[1].raised = "ValueError"
            /\ ret[1].raised = "" =>
                 {ret[1].value.var_names[j] : j \in DOMAIN ret[1].value.var_names}
                   = UNION {MatchedBy(patterns[p]) : p \in DOMAIN patterns}

\* C16 witness: the first pattern matches two columns, the second none, and the
\* call raised
C16_Witness ==
    /\ ret # <<>>
    /\ args.regex_str.patterns = <<<<"f">>, <<"z">>>>
    /\ Cardinality(MatchedBy(<<"f">>)) = 2
    /\ ret[1].raised = "ValueError"

\* C17: for every call that returns, the matrix read back with to_df() holds,
\* for every feature and every row, the value the table held in that column,
\* whatever the numeric types of the feature columns.
C17_RoundTrip ==
    (ret # <<>> /\ ret[1].raised = "") =>
        LET adata == ret[1].value
            back  == to_df(adata.X)
        IN  \A r \in DOMAIN data.rows : \A j \in DOMAIN adata.var_names :
                back.rows[r][j] = data.rows[r][ColumnIndex(data, adata.var_names[j])]

\* C26: the feature columns of the matrix ingest_cells builds are pairwise
\* distinct: a table column matched by more than one pattern appears exactly
\* once among the features.
C26_FeaturesDistinct ==
    (ret # <<>> /\ ret[1].raised = "") =>
        \A i, j \in DOMAIN ret[1].value.var_names :
            i # j => ret[1].value.var_names[i] # ret[1].value.var_names[j]

-----------------------------------------------------------------------------
(* concatinate_regions.  data is the list of the regions; a region is        *)
(* [obs_names, var_names, X], its observation names being strings.           *)

\* the largest number of regions of a call
MaxRegions == 2

\* the observation names of a region
RegionObsNames ==
    {<<>>, <<"a">>, <<"a", "a">>, <<"a", "a-1">>, <<"a-1", "a">>, <<"b", "a">>}

\* the variable names of a region
RegionVarNames == {<<"f1", "f2">>, <<"f2", "f1">>, <<"f1">>}

\* the region at position k of the list: the value of observation r for the
\* variable v is the text v k r
Region(obs_names, region_var_names, k) ==
    [obs_names |-> obs_names,
     var_names |-> region_var_names,
     X         |-> [r \in DOMAIN obs_names |->
                      [c \in DOMAIN region_var_names |->
                         region_var_names[c] \o ToString(k) \o ToString(r)]]]

\* the lists of up to MaxRegions regions
RegionLists ==
    UNION {{[k \in 1..n |-> Region(shape[k][1], shape[k][2], k)]
            : shape \in [1..n -> RegionObsNames \X RegionVarNames]}
           : n \in 0..MaxRegions}

\* the names of the list that every region has (join="inner")
RECURSIVE CommonVars(_, _)
CommonVars(names, regions) ==
    IF names = <<>> THEN <<>>
    ELSE (IF \A k \in DOMAIN regions :
                 \E c \in DOMAIN regions[k].var_names :
                     regions[k].var_names[c] = Head(names)
          THEN <<Head(names)>> ELSE <<>>)
         \o CommonVars(Tail(names), regions)

\* the rows of a region restricted to the variables of that list, by name
RegionRowsFor(region, names) ==
    [r \in DOMAIN region.X |->
       [j \in DOMAIN names |->
          region.X[r][CHOOSE c \in DOMAIN region.var_names :
                          region.var_names[c] = names[j]]]]

\* the observation names, and the rows, of the regions one region after the other
RECURSIVE ConcatObsNames(_)
ConcatObsNames(regions) ==
    IF regions = <<>> THEN <<>>
    ELSE Head(regions).obs_names \o ConcatObsNames(Tail(regions))

RECURSIVE ConcatRows(_, _)
ConcatRows(regions, names) ==
    IF regions = <<>> THEN <<>>
    ELSE RegionRowsFor(Head(regions), names) \o ConcatRows(Tail(regions), names)

\* ad.concat(regions): the variables common to the regions, in the order of
\* the first region, and the observations in list order
concat(regions) ==
    LET names == CommonVars(regions[1].var_names, regions)
    IN  [obs_names |-> ConcatObsNames(regions),
         var_names |-> names,
         X         |-> ConcatRows(regions, names)]

\* counter[v] of a Counter: 0 for a key it does not hold
Count(counter, v) == IF v \in DOMAIN counter THEN counter[v] ELSE 0

\* mutant of NextFree: the first tentative name is taken, free or not
NextFreeUnchecked(v, n, values_set) == n + 1

\* the `while True` loop of make_index_unique: the least number above n whose
\* tentative name v-number is not in values_set
RECURSIVE NextFree(_, _, _)
NextFree(v, n, values_set) ==
    IF (v \o "-" \o ToString(n + 1)) \notin values_set THEN n + 1
    ELSE NextFree(v, n + 1, values_set)

\* the loop of make_index_unique over the values from position i on: a value
\* that occurred before (index.duplicated(keep="first")) gets the next free
\* suffix, the others stay
RECURSIVE RenameDuplicates(_, _, _, _)
RenameDuplicates(values, i, values_set, counter) ==
    IF i > Len(values) THEN <<>>
    ELSE LET v == values[i]
         IN  IF \E j \in 1..(i - 1) : values[j] = v
             THEN LET n    == NextFree(v, Count(counter, v), values_set)
                      name == v \o "-" \o ToString(n)
                  IN  <<name>> \o
                      RenameDuplicates(values, i + 1, values_set \cup {name},
                          [k \in DOMAIN counter \cup {v} |-> IF k = v THEN n ELSE counter[k]])
             ELSE <<v>> \o RenameDuplicates(values, i + 1, values_set, counter)

\* adata.obs_names_make_unique()
obs_names_make_unique(adata) ==
    [adata EXCEPT !.obs_names =
        RenameDuplicates(adata.obs_names, 1,
                         {adata.obs_names[i] : i \in DOMAIN adata.obs_names}, <<>>)]

\* concatinate_regions(regions): its outcome; ad.concat of no region raises
concatinate_regions(regions) ==
    IF regions = <<>> THEN Raised("ValueError")
    ELSE Returned(obs_names_make_unique(concat(regions)))

ConcatinateRegions ==
    /\ ret = <<>>
    /\ ret' = <<concatinate_regions(data)>>
    /\ UNCHANGED <<data, args, locals, matrixVars>>

InitRegions ==
    /\ data \in RegionLists
    /\ args = <<>>
    /\ ret = <<>>
    /\ locals = <<>>
    /\ X = <<>> /\ obs = <<>> /\ layers = <<>> /\ written = <<>> /\ new_df = <<>>

NextRegions == ConcatinateRegions

SpecRegions == InitRegions /\ [][NextRegions]_vars

-----------------------------------------------------------------------------
(* Properties of concatinate_regions (SpecRegions) *)

\* the number of observations of the regions before position k
RECURSIVE ObsBefore(_)
ObsBefore(k) == IF k <= 1 THEN 0 ELSE ObsBefore(k - 1) + Len(data[k - 1].obs_names)

\* C18: the returned matrix holds the observations of the regions in list
\* order, every one with its values of the common variables, and its
\* observation names are pairwise distinct, also when names of the inputs
\* collide with each other or with a name that carries a suffix already.
C18_UniqueNamesInOrder ==
    (ret # <<>> /\ ret[1].raised = "") =>
        LET out == ret[1].value
        IN  /\ Len(out.obs_names) = ObsBefore(Len(data) + 1)
            /\ Len(out.X) = Len(out.obs_names)
            /\ \A i, j \in DOMAIN out.obs_names :
                   i # j => out.obs_names[i] # out.obs_names[j]
            /\ \A k \in DOMAIN data : \A r \in DOMAIN data[k].X :
                 \A c \in DOMAIN out.var_names :
                   out.X[ObsBefore(k) + r][c] = out.var_names[c] \o ToString(k) \o ToString(r)

\* C18 witness: the second "a" could not become "a-1", which the inputs hold
\* already, and became "a-2"
C18_Witness ==
    /\ ret # <<>>
    /\ ret[1].raised = ""
    /\ Len(data) = 2
    /\ data[1].obs_names = <<"a", "a-1">>
    /\ data[2].obs_names = <<"a-1", "a">>
    /\ ret[1].value.obs_names = <<"a", "a-1", "a-1-1", "a-2">>

-----------------------------------------------------------------------------
(* bin2cat.  data is the caller's table, of at least one row; the new column *)
(* is written into it.                                                       *)

\* the largest number of rows of the table
BinMaxRows == 2

\* the largest number of patterns of a call
MaxOneHot == 2

\* data.columns: two one-hot columns and a count column
BinColumns == <<<<"A">>, <<"B">>, <<"n">>>>

\* the rows: 0 or 1 in the one-hot columns, 0 or 2 in the count column
BinRows == {0, 1} \X {0, 1} \X {0, 2}

BinTables ==
    UNION {{[index |-> RangeIndex(n), columns |-> BinColumns, rows |-> rows]
            : rows \in [1..n -> BinRows]}
           : n \in 1..BinMaxRows}

\* the patterns of one_hot_annotations
OneHotPatterns == {<<"A">>, <<"B">>, <<".">>, <<"z">>}

\* np.nan
NaN == <<>>

\* mutant of get_columns_with_1: the columns holding anything but 0
get_columns_nonzero(columns, row) ==
    SelectSeq([c \in DOMAIN columns |-> <<columns[c], row[c]>>],
              LAMBDA pair : pair[2] # 0)

\* cell_labels_df.columns[row == 1], each name with its cell
get_columns_with_1(columns, row) ==
    SelectSeq([c \in DOMAIN columns |-> <<columns[c], row[c]>>],
              LAMBDA pair : pair[2] = 1)

\* cell_labels_df.apply(get_columns_with_1, axis=1): the rows in order; the
\* first row with more than one column raises, its message naming them
RECURSIVE ApplyRows(_, _)
ApplyRows(cell_labels_df, rows) ==
    IF rows = <<>> THEN [raised |-> "", message |-> <<>>, labels |-> <<>>]
    ELSE LET found        == get_columns_with_1(cell_labels_df.columns, Head(rows))
             column_names == [k \in DOMAIN found |-> found[k][1]]
             rest         == ApplyRows(cell_labels_df, Tail(rows))
         IN  IF Len(column_names) > 1
             THEN [raised |-> "ValueError", message |-> column_names, labels |-> <<>>]
             ELSE IF rest.raised # "" THEN rest
             ELSE [rest EXCEPT !.labels =
                     <<IF Len(column_names) = 1 THEN column_names[1] ELSE NaN>> \o @]

\* the outcomes of bin2cat: the exception raised and the columns its message
\* names, or the value returned (<<>> for None, <<the table>> otherwise)
BinRaised(exc, message) == [raised |-> exc, message |-> message, value |-> <<>>]
BinReturned(value) == [raised |-> "", message |-> <<>>, value |-> value]

\* bin2cat(data, one_hot_annotations, new_annotation): its outcome.
\* one_hot_annotations is [type, patterns]: a str is the list of itself.
bin2cat(df, one_hot_annotations, new_annotation) ==
    IF one_hot_annotations.type \notin {"str", "list"}
    THEN BinRaised("ValueError", <<>>)
    ELSE IF HasColumn(df, new_annotation) THEN BinRaised("ValueError", <<>>)
    ELSE IF Len(one_hot_annotations.patterns) > 0
    THEN LET all_cell_labels == regex_search_list(one_hot_annotations.patterns, df.columns)
             cell_labels_df  == [index   |-> df.index,
                                 columns |-> all_cell_labels,
                                 rows    |-> [r \in DOMAIN df.rows |->
                                                [j \in DOMAIN all_cell_labels |->
                                                   df.rows[r][ColumnIndex(df, all_cell_labels[j])]]]]
             applied         == ApplyRows(cell_labels_df, cell_labels_df.rows)
         IN  IF Len(all_cell_labels) > 0
             THEN IF applied.raised # ""
                  THEN BinRaised(applied.raised, applied.message)
                  ELSE BinReturned(<<[df EXCEPT
                                        !.columns = Append(@, new_annotation),
                                        !.rows = AppendColumn(df.rows, applied.labels)]>>)
             ELSE BinRaised("ValueError", <<>>)
    \* no branch is taken for an empty list: the function ends, returning None
    ELSE BinReturned(<<>>)

\* the call; data[new_annotation] = ... writes into the caller's table
BinToCat ==
    /\ ret = <<>>
    /\ LET outcome == bin2cat(data, args.one_hot_annotations, args.new_annotation)
       IN  /\ ret' = <<outcome>>
           /\ data' = IF outcome.value # <<>> THEN outcome.value[1] ELSE data
    /\ UNCHANGED <<args, locals, matrixVars>>

InitBin ==
    /\ data \in BinTables
    /\ args \in [one_hot_annotations :
                     [type : {"list"},
                      patterns : UNION {[1..n -> OneHotPatterns] : n \in 0..MaxOneHot}]
                     \cup [type : {"str"}, patterns : {<<p>> : p \in OneHotPatterns}]
                     \cup [type : {"int"}, patterns : {<<>>}],
                 new_annotation : {<<"n", "e", "w">>, <<"A">>}]
    /\ ret = <<>>
    /\ locals = <<>>
    /\ X = <<>> /\ obs = <<>> /\ layers = <<>> /\ written = <<>> /\ new_df = <<>>

NextBin == BinToCat

SpecBin == InitBin /\ [][NextBin]_vars

-----------------------------------------------------------------------------
(* Properties of bin2cat (SpecBin) *)

\* one_hot_annotations is a str or a list
BinAccepted == args.one_hot_annotations.type \in {"str", "list"}

\* the positions of the columns of the table, as it was at the call, that some
\* pattern matches
MatchedColumns ==
    {c \in 1..Len(BinColumns) :
        \E p \in DOMAIN args.one_hot_annotations.patterns :
            regex_search(args.one_hot_annotations.patterns[p], BinColumns[c])}

\* the matched columns that hold 1 in row r
OnesOf(r) == {c \in MatchedColumns : data.rows[r][c] = 1}

\* C19: when some column is matched and the new name is free, every row gets
\* in the new column the name of the one matched column holding 1, or the
\* missing-value sentinel when none holds 1; when some row has 1 in more than
\* one matched column the call raises the validation error, naming those
\* columns.
C19_OneHotToCategory ==
    (ret # <<>> /\ BinAccepted /\ MatchedColumns # {}
       /\ args.new_annotation \notin {BinColumns[c] : c \in 1..Len(BinColumns)}) =>
        LET many == {r \in DOMAIN data.rows : Cardinality(OnesOf(r)) > 1}
        IN  IF many # {}
            THEN LET first == CHOOSE r \in many : \A q \in many : r <= q
                 IN  /\ ret[1].raised = "ValueError"
                     /\ {ret[1].message[k] : k \in DOMAIN ret[1].message}
                          = {BinColumns[c] : c \in OnesOf(first)}
                     /\ data.columns = BinColumns
            ELSE /\ ret[1].raised = ""
                 /\ data.columns = Append(BinColumns, args.new_annotation)
                 /\ \A r \in DOMAIN data.rows :
                      data.rows[r][Len(BinColumns) + 1] =
                        IF OnesOf(r) = {} THEN NaN
                        ELSE BinColumns[CHOOSE c \in OnesOf(r) : TRUE]

\* C19 witness: every column is matched; the row holding 1 in A (and 2 in the
\* count column) got the label A, the row holding no 1 the sentinel
C19_Witness ==
    /\ ret # <<>>
    /\ ret[1].raised = ""
    /\ args.one_hot_annotations.patterns = <<<<".">>>>
    /\ Len(data.rows) = 2
    /\ data.rows[1] = <<1, 0, 2, <<"A">>>>
    /\ data.rows[2] = <<0, 0, 2, NaN>>

\* C20: for every pattern set given as a str or a list, the empty list
\* included, that matches no column of the table, the call raises the
\* validation error; the call never returns without having added the new
\* column or raised.
C20_RaisesWhenNothingMatches ==
    (ret # <<>> /\ BinAccepted) =>
        /\ MatchedColumns = {} => ret[1].raised = "ValueError"
        /\ ret[1].raised = "" => HasColumn(data, args.new_annotation)

-----------------------------------------------------------------------------
(* calculate_centroid.  data is the caller's table, which the call writes    *)
(* into; a column name is a sequence of characters, a cell a rational.       *)

\* the largest number of rows of the table
CentroidMaxRows == 1

\* data.columns: the columns of the minimum and maximum x and y
CentroidColumns == <<<<"a">>, <<"b">>, <<"c">>, <<"d">>>>

\* the rows: x values of 0 or 10, y values of 0 or 20
CentroidRows ==
    {<<RInt(xa), RInt(xb), RInt(ya), RInt(yb)>> :
        xa \in {0, 10}, xb \in {0, 10}, ya \in {0, 20}, yb \in {0, 20}}

CentroidTables ==
    UNION {{[index |-> RangeIndex(n), columns |-> CentroidColumns, rows |-> rows]
            : rows \in [1..n -> CentroidRows]}
           : n \in 0..CentroidMaxRows}

\* the names given for the new columns
NewNames == {<<"n", "x">>, <<"n", "_", "1">>, <<"n", "-", "x">>, <<"a">>, <<"c">>}

\* the characters outside the class [^a-zA-Z0-9_]
AllowedChars ==
    {"a", "b", "c", "d", "e", "f", "g", "h", "i", "j", "k", "l", "m",
     "n", "o", "p", "q", "r", "s", "t", "u", "v", "w", "x", "y", "z",
     "A", "B", "C", "D", "E", "F", "G", "H", "I", "J", "K", "L", "M",
     "N", "O", "P", "Q", "R", "S", "T", "U", "V", "W", "X", "Y", "Z",
     "0", "1", "2", "3", "4", "5", "6", "7", "8", "9", "_"}

\* re.search(invalid_chars, name): some character of the name is not allowed
HasInvalidChar(name) == \E i \in DOMAIN name : name[i] \notin AllowedChars

\* (data[low] + data[high]) / 2, row by row
RECURSIVE Midpoints(_, _)
Midpoints(low, high) ==
    IF low = <<>> THEN <<>>
    ELSE <<RDiv(RAdd(Head(low), Head(high)), RInt(2))>> \o Midpoints(Tail(low), Tail(high))

\* data[name] = cells: the column is overwritten if it exists and appended
\* otherwise
SetItem(df, name, cells) ==
    IF HasColumn(df, name)
    THEN [df EXCEPT !.rows = SetColumn(df.rows, ColumnIndex(df, name), cells)]
    ELSE [df EXCEPT !.columns = Append(@, name), !.rows = AppendColumn(df.rows, cells)]

\* calculate_centroid(data, x_min, x_max, y_min, y_max, new_x, new_y): its
\* outcome; the table returned is the caller's table after the two assignments
calculate_centroid(df, x_min, x_max, y_min, y_max, new_x, new_y) ==
    IF HasInvalidChar(new_x) \/ HasInvalidChar(new_y) THEN Raised("ValueError")
    ELSE IF \E col \in {x_min, x_max, y_min, y_max} : ~HasColumn(df, col)
    THEN Raised("ValueError")
    ELSE LET with_x == SetItem(df, new_x, Midpoints(Series(df, x_min), Series(df, x_max)))
             with_y == SetItem(with_x, new_y,
                               Midpoints(Series(with_x, y_min), Series(with_x, y_max)))
         IN  Returned(with_y)

CalculateCentroid ==
    /\ ret = <<>>
    /\ LET outcome == calculate_centroid(data, args.x_min, args.x_max, args.y_min,
                                         args.y_max, args.new_x, args.new_y)
       IN  /\ ret' = <<outcome>>
           /\ data' = IF outcome.raised = "" THEN outcome.value ELSE data
           \* the table as it was at the call
           /\ locals' = [original |-> data]
    /\ UNCHANGED <<args, matrixVars>>

InitCentroid ==
    /\ data \in CentroidTables
    /\ args \in [x_min : {<<"a">>, <<"q">>}, x_max : {<<"b">>},
                 y_min : {<<"c">>}, y_max : {<<"d">>, <<"q">>},
                 new_x : NewNames, new_y : NewNames]
    /\ ret = <<>>
    /\ locals = <<>>
    /\ X = <<>> /\ obs = <<>> /\ layers = <<>> /\ written = <<>> /\ new_df = <<>>

NextCentroid == CalculateCentroid

SpecCentroid == InitCentroid /\ [][NextCentroid]_vars

-----------------------------------------------------------------------------
(* Properties of calculate_centroid (SpecCentroid) *)

\* the new names have allowed characters only and the four source columns exist
CentroidValid ==
    /\ ~HasInvalidChar(args.new_x) /\ ~HasInvalidChar(args.new_y)
    /\ \A col \in {args.x_min, args.x_max, args.y_min, args.y_max} :
           \E c \in DOMAIN CentroidColumns : CentroidColumns[c] = col

\* the midpoint of two cells of row r of the table as it was at the call
MidpointAt(r, low, high) ==
    LET row == locals.original.rows[r]
        lo  == row[CHOOSE c \in DOMAIN CentroidColumns : CentroidColumns[c] = low]
        hi  == row[CHOOSE c \in DOMAIN CentroidColumns : CentroidColumns[c] = high]
    IN  Rat(lo[1] * hi[2] + hi[1] * lo[2], 2 * lo[2] * hi[2])

\* C21: for all names that pass the validation the call returns the caller's
\* table, in which new_x holds in every row the midpoint of the original x_min
\* and x_max and new_y the midpoint of the original y_min and y_max; otherwise
\* it raises the validation error and the table is as it was.
C21_CentroidIsMidpoint ==
    ret # <<>> =>
        IF CentroidValid
        THEN /\ ret[1].raised = ""
             /\ ret[1].value = data
             /\ \A r \in DOMAIN data.rows :
                  /\ CellOf(data, r, args.new_x) = MidpointAt(r, args.x_min, args.x_max)
                  /\ CellOf(data, r, args.new_y) = MidpointAt(r, args.y_min, args.y_max)
        ELSE /\ ret[1].raised = "ValueError"
             /\ data = locals.original

-----------------------------------------------------------------------------
(* rescale_features called on its own (SpecRescale) *)

\* the largest number of rows of a features table
RescaleMaxRows == 3

\* the values a feature cell can hold (floats of MantissaBits bits)
RescaleValues == {1, 4, 6, 7}

\* the (min_quantile, max_quantile) pairs rescale_features is called with
RescaleQuantiles ==
    {<<<<0, 1>>, <<1, 1>>>>, <<<<1, 4>>, <<3, 4>>>>,
     <<<<1, 2>>, <<1, 2>>>>, <<<<3, 4>>, <<1, 4>>>>}

\* the features tables: one to RescaleMaxRows rows of float cells
RescaleTables ==
    UNION {{to_df(x) :
              x \in [1..n -> [DOMAIN var_names -> {RInt(v) : v \in RescaleValues}]]} :
           n \in 1..RescaleMaxRows}

RescaleFeatures ==
    /\ ret = <<>>
    /\ ret' = <<Returned(rescale_features(data, args.min_quantile, args.max_quantile))>>
    /\ UNCHANGED <<data, args, locals, matrixVars>>

InitRescale ==
    /\ data \in RescaleTables
    /\ \E qq \in RescaleQuantiles :
        args = [min_quantile |-> qq[1], max_quantile |-> qq[2]]
    /\ ret = <<>>
    /\ locals = <<>>
    /\ X = <<>> /\ obs = <<>> /\ layers = <<>> /\ written = <<>> /\ new_df = <<>>

NextRescale == RescaleFeatures

SpecRescale == InitRescale /\ [][NextRescale]_vars

-----------------------------------------------------------------------------
(* Properties of rescale_features (SpecRescale) *)

\* the column c of the features table holds more than one value
NonConstant(c) == \E i, j \in DOMAIN data.rows : data.rows[i][c] # data.rows[j][c]

\* C22: for all quantile settings with min_quantile <= max_quantile,
\* rescale_features returns a table with the same column names in the same
\* order and the same number of rows, and every value of every non-constant
\* column lies between 0 and 1 inclusive.
C22_RescaledInUnitInterval ==
    (ret # <<>> /\ RLe(args.min_quantile, args.max_quantile)) =>
        /\ ret[1].raised = ""
        /\ ret[1].value.columns = data.columns
        /\ Len(ret[1].value.rows) = Len(data.rows)
        /\ \A r \in DOMAIN ret[1].value.rows : \A c \in DOMAIN var_names :
            NonConstant(c) =>
                /\ RLe(RInt(0), ret[1].value.rows[r][c])
                /\ RLe(ret[1].value.rows[r][c], RInt(1))

-----------------------------------------------------------------------------
(* visualization.py: histogram, heatmap, hierarchical_heatmap (SpecPlot) *)
(* The matrix has the feature columns var_names and one annotation column;    *)
(* a call's value is the table of numbers handed to the charting library.     *)
(* histogram is called without group_by.                                      *)

\* the largest number of observations of a plotted matrix
PlotMaxRows == 2

\* adata.obs.columns
obs_columns == <<"region">>

\* the layer names, feature names and annotation names the calls are made with
PlotLayerArgs == {<<>>, <<"l1">>, <<"l2">>}
PlotFeatureArgs == {<<>>, <<"f1">>, <<"zz">>}
PlotObservationArgs == {<<>>, <<"region">>}
PlotColumnArgs == {"region", "zz"}

\* the annotation values in sorted order
SortedRegions == <<"A", "B">>

InSeq(v, s) == \E i \in DOMAIN s : s[i] = v

\* groupby(column): the keys present, sorted
PlotGroupKeys(labels) == SelectSeq(SortedRegions, LAMBDA g : InSeq(g, labels))

RECURSIVE ColumnSum(_)
ColumnSum(col) == IF col = <<>> THEN RInt(0) ELSE FAdd(Head(col), ColumnSum(Tail(col)))

\* DataFrame.mean() of the rows of one group: one value per column c..last
RECURSIVE FrameMeanFrom(_, _)
FrameMeanFrom(rows, c) ==
    IF c > Len(var_names) THEN <<>>
    ELSE <<FDiv(ColumnSum(Column(rows, c)), RInt(Len(rows)))>>
         \o FrameMeanFrom(rows, c + 1)

\* grouped.mean(): per key, the mean of the rows labelled with it
RECURSIVE GroupedMeanRows(_, _, _)
GroupedMeanRows(rows, labels, keys) ==
    IF keys = <<>> THEN <<>>
    ELSE <<FrameMeanFrom(MaskSeq(rows, EqMask(labels, Head(keys))), 1)>>
         \o GroupedMeanRows(rows, labels, Tail(keys))

GroupedMean(features, labels) ==
    LET keys == PlotGroupKeys(labels)
    IN  [index |-> keys, columns |-> features.columns,
         rows |-> GroupedMeanRows(features.rows, labels, keys)]

\* adata.to_df(layer=layer): the primary matrix for None, else the named layer
to_df_layer(layer) ==
    IF layer = <<>> THEN Returned(to_df(X))
    ELSE IF layer[1] \in DOMAIN layers
    THEN Returned([to_df(X) EXCEPT !.rows = layers[layer[1]]])
    ELSE Raised("KeyError")

\* the cells of the column x of pd.concat([adata.to_df(), adata.obs], axis=1)
PlotColumn(x) ==
    IF InSeq(x, var_names)
    THEN Column(X, CHOOSE c \in DOMAIN var_names : var_names[c] = x)
    ELSE obs

\* histogram(adata, feature_name, observation_name, layer): the series plotted
histogram(feature_name, observation_name, layer) ==
    LET df_columns == var_names \o obs_columns
    IN  IF feature_name # <<>> /\ observation_name # <<>> THEN Raised("ValueError")
        ELSE IF feature_name # <<>> /\ ~InSeq(feature_name[1], df_columns)
        THEN Raised("ValueError")
        ELSE IF observation_name # <<>> /\ ~InSeq(observation_name[1], df_columns)
        THEN Raised("ValueError")
        ELSE IF feature_name = <<>> /\ observation_name = <<>>
        THEN Raised("UnboundLocalError")
        ELSE LET x == IF observation_name # <<>> THEN observation_name[1]
                      ELSE feature_name[1]
             IN  Returned([index |-> RangeIndex(Len(X)), columns |-> <<x>>,
                           rows |-> PlotColumn(x)])

\* heatmap(adata, column, layer): mean_feature
heatmap(column, layer) ==
    LET features == to_df_layer(layer)
    IN  IF features.raised # "" THEN features
        ELSE IF ~InSeq(column, obs_columns) THEN Raised("KeyError")
        ELSE Returned(GroupedMean(features.value, obs))

\* mean_intensity.reset_index(): the keys become the first column
RECURSIVE KeyedRows(_, _)
KeyedRows(keys, rows) ==
    IF keys = <<>> THEN <<>>
    ELSE <<<<Head(keys)>> \o Head(rows)>> \o KeyedRows(Tail(keys), Tail(rows))

\* hierarchical_heatmap(adata, observation, layer): mean_intensity
hierarchical_heatmap(observation, layer) ==
    IF ~InSeq(observation, obs_columns) THEN Raised("KeyError")
    ELSE IF layer # <<>> /\ layer[1] \notin DOMAIN layers THEN Raised("KeyError")
    ELSE LET intensities == to_df_layer(layer)
             mean_intensity == GroupedMean(intensities.value, obs)
         IN  Returned([index |-> RangeIndex(Len(mean_intensity.index)),
                       columns |-> <<observation>> \o mean_intensity.columns,
                       rows |-> KeyedRows(mean_intensity.index, mean_intensity.rows)])

Histogram ==
    /\ ret = <<>>
    /\ ret' = <<histogram(args.feature_name, args.observation_name, args.layer)>>
    /\ locals' = [function |-> "histogram"]
    /\ UNCHANGED <<data, args, matrixVars>>

Heatmap ==
    /\ ret = <<>>
    /\ ret' = <<heatmap(args.column, args.layer)>>
    /\ locals' = [function |-> "heatmap"]
    /\ UNCHANGED <<data, args, matrixVars>>

HierarchicalHeatmap ==
    /\ ret = <<>>
    /\ ret' = <<hierarchical_heatmap(args.column, args.layer)>>
    /\ locals' = [function |-> "hierarchical_heatmap"]
    /\ UNCHANGED <<data, args, matrixVars>>

\* a matrix without layers, or with the layer "l1" add_rescaled_features produces
InitPlot ==
    /\ \E n \in 1..PlotMaxRows :
        /\ X \in [1..n -> [DOMAIN var_names -> {RInt(v) : v \in FeatureValues}]]
        /\ obs \in [1..n -> Regions]
    /\ \E qq \in QuantilePairs :
        layers \in {<<>>,
                    [l \in {"l1"} |->
                        LayerValue(rescale_features(to_df(X), qq[1], qq[2]))]}
    /\ written = <<>>
    /\ new_df = <<>>
    /\ args \in [feature_name : PlotFeatureArgs, observation_name : PlotObservationArgs,
                 column : PlotColumnArgs, layer : PlotLayerArgs]
    /\ data = <<>> /\ ret = <<>> /\ locals = <<>>

NextPlot == Histogram \/ Heatmap \/ HierarchicalHeatmap

SpecPlot == InitPlot /\ [][NextPlot]_vars

-----------------------------------------------------------------------------
(* Properties of the visualization functions (SpecPlot) *)

\* C23: histogram, heatmap and hierarchical_heatmap, called with a layer name
\* that is not a layer of the matrix, fail instead of plotting from other data.
C23_FailsOnAbsentLayer ==
    (ret # <<>> /\ args.layer # <<>> /\ args.layer[1] \notin DOMAIN layers) =>
        ret[1].raised # ""

-----------------------------------------------------------------------------
(* More properties of combine_dfs (SpecCombine) *)

\* the caller's tables as they were when the call was made
TablesAtCall == [k \in DOMAIN args.dataframes |-> args.dataframes[k][2]]

\* C24: when combine_dfs fails on a pair with a schema mismatch or a missing
\* annotation entry (ValueError), none of the caller's input tables, the ones
\* already processed included, has gained or changed a column.
C24_FailureLeavesInputs ==
    (ret # <<>> /\ CombineCalled /\ ret[1].raised = "ValueError") =>
        data.dataframes = TablesAtCall

-----------------------------------------------------------------------------
(* downsample_cells, stratified, on larger tables (SpecStratified) *)

\* the largest number of rows of a table that is downsampled by strata
StratMaxRows == 13

\* k rows annotated g, numbered from `from`
RECURSIVE GroupBlock(_, _, _)
GroupBlock(g, k, from) ==
    IF k = 0 THEN <<>> ELSE <<<<g, from>>>> \o GroupBlock(g, k - 1, from + 1)

\* the tables: a rows annotated "a", then b rows "b", then c rows "c"
StratTables ==
    {[index   |-> RangeIndex(a + b + c),
      columns |-> <<"annotation", "value">>,
      rows    |-> GroupBlock("a", a, 1) \o GroupBlock("b", b, a + 1)
                  \o GroupBlock("c", c, a + b + 1)] :
        <<a, b, c>> \in {t \in (0..StratMaxRows) \X (0..StratMaxRows) \X (0..StratMaxRows) :
                            t[1] + t[2] + t[3] \in 1..StratMaxRows}}

\* stratified calls taking the first rows of every group
InitStratified ==
    /\ data \in StratTables
    /\ args \in [annotation : {"annotation"},
                 n_samples  : {<<n>> : n \in 1..StratMaxRows},
                 stratify   : {TRUE},
                 rand       : {FALSE}]
    /\ ret = <<>>
    /\ locals = <<>>
    /\ X = <<>> /\ obs = <<>> /\ layers = <<>> /\ written = <<>> /\ new_df = <<>>

NextStratified == DownsampleCells

SpecStratified == InitStratified /\ [][NextStratified]_vars

-----------------------------------------------------------------------------
(* Properties of stratified downsampling (SpecStratified) *)

\* the number of distinct annotation values of the table
NumGroups == Cardinality({g \in Labels : RowsOf(data, g) # <<>>})

\* C25: with stratify on and 1 <= n_samples <= number of rows, the result has
\* more than n_samples - G rows, G the number of distinct annotation values,
\* and at most n_samples rows.
C25_RoundingLossBelowGroups ==
    (/\ DsReturned
     /\ args.stratify
     /\ args.n_samples[1] >= 1
     /\ args.n_samples[1] <= Len(data.rows)) =>
        /\ Len(ret[1].value.rows) > args.n_samples[1] - NumGroups
        /\ Len(ret[1].value.rows) <= args.n_samples[1]

====
